---- MODULE Spec2Model ----
(***************************************************************************)
(* percona-agent: the instance repository (instance/repo.go), the MySQL    *)
(* restart monitor (mrms/monitor) and the instance manager, as state        *)
(* machines.                                                                *)
(*                                                                          *)
(* Strings that the code inspects character by character (instance ids,     *)
(* file names) are sequences of pieces, a piece being a run of characters.  *)
(***************************************************************************)
EXTENDS Integers, Sequences, FiniteSets, TLC

VARIABLES
    it,        \* Repo.it: UUID -> proto.InstanceConfig
    files,     \* configDir/instance-*.conf: file name less ".conf" -> body
    apiLink,   \* api.EntryLink("insts"): "" when the link is not configured
    crashed,   \* TRUE once a call has panicked
    lastOp,    \* the last Repo call: its arguments, results and I/O counts
    scan,      \* an Init running beside other callers: its file list, its place
    stacks,    \* the calls each execution context is in: context -> call stack
    mysqlInstances, \* Monitor.mysqlInstances: dsn -> MysqlInstance
    chans,     \* the delivery channels made so far: channel -> signals buffered
    server,    \* the MySQL servers: dsn -> reachable or not, fingerprint
    held,      \* the subscriptions callers hold: channel -> dsn
    monOp,     \* the last Monitor call: its arguments and results
    stop,      \* Monitor.stop: the stop signals buffered
    tasks,     \* the polling tasks Start has launched: where each one is
    mrmChans,  \* Manager.mrmChans: dsn -> the channel mrm.Add returned
    feed,      \* the monitor's global feed: the keys sent and not yet taken
    resync,    \* the resync task (monitorInstancesRestart): where it is
    mgrOp      \* the last Manager call: its command, reply and effects

repoVars == <<it, files, apiLink, crashed, lastOp, scan>>

pollVars == <<stop, tasks>>

monVars == <<mysqlInstances, chans, server, held, monOp, stop, tasks>>

mgrVars == <<mrmChans, feed, resync, mgrOp>>

vars == <<it, files, apiLink, crashed, lastOp, scan, stacks,
          mysqlInstances, chans, server, held, monOp, stop, tasks,
          mrmChans, feed, resync, mgrOp>>

----------------------------------------------------------------------------
(* Bounds of the model *)

\* number of distinct well-formed instance ids
NumIds == 2

\* number of delivery channels the monitor hands out
MaxChans == 2

\* number of restarts of one MySQL server
MaxRestarts == 2

\* buffer size of a delivery channel
ChanCap == 1

\* number of polling tasks Start launches
MaxTasks == 2

----------------------------------------------------------------------------
(* Strings, ids, records *)

\* A string is a sequence of pieces; the piece [w, n] spells the letters of
\* the word w, n times over.
P(w, n) == [w |-> w, n |-> n]

Letters(w) ==
    IF w = "instance" THEN <<"i", "n", "s", "t", "a", "n", "c", "e">>
    ELSE <<w>>

Times(cs, n) == [i \in 1..(n * Len(cs)) |-> cs[((i - 1) % Len(cs)) + 1]]

\* the characters of a string
RECURSIVE Chars(_)
Chars(s) ==
    IF s = <<>> THEN <<>>
    ELSE Times(Letters(Head(s).w), Head(s).n) \o Chars(Tail(s))

\* len(s)
RECURSIVE StrLen(_)
StrLen(s) ==
    IF s = <<>> THEN 0
    ELSE Head(s).n * Len(Letters(Head(s).w)) + StrLen(Tail(s))

\* the characters that occur in s
CharSet(s) ==
    UNION {{Letters(s[i].w)[j] : j \in 1..Len(Letters(s[i].w))} :
             i \in {k \in 1..Len(s) : s[k].n > 0}}

\* the {32} of the regular expression in valid()
IdLen == 32

HexLetters == <<"a", "b", "c", "d", "e", "f">>

\* [[:xdigit:]]
XDigit == {"0", "1", "2", "3", "4", "5", "6", "7", "8", "9",
           "a", "b", "c", "d", "e", "f", "A", "B", "C", "D", "E", "F"}

\* ASCII order of the characters that occur in file names
Alphabet == <<"-", ".", "0", "1", "2", "3", "4", "5", "6", "7", "8", "9",
              "A", "B", "C", "D", "E", "F",
              "a", "b", "c", "d", "e", "f", "g",
              "i", "n", "s", "t">>

Ord(c) == CHOOSE i \in 1..Len(Alphabet) : Alphabet[i] = c

IdOf(i) == <<P(HexLetters[i], IdLen)>>

\* the well-formed ids of the model: aaaa..., bbbb..., ...
Ids == {IdOf(i) : i \in 1..NumIds}

\* one character short
ShortId == <<P("a", IdLen - 1)>>

\* 32 characters, none of them a hexadecimal digit
NonHexId == <<P("g", IdLen)>>

BadIds == {ShortId, NonHexId}

\* valid that takes every id
validAlways(id) == TRUE

\* valid(): ^[[:xdigit:]]{32}$
valid(id) ==
    /\ StrLen(id) = IdLen
    /\ CharSet(id) \subseteq XDigit

DsnKey == "dsn"

\* the property keys of the model, in the order json.Marshal writes map keys
PropKeys == <<"distro", "dsn", "hostname", "version">>

Dsns == {"D1"}

NoProps == [k \in {} |-> ""]

MySQLRec(id, d) ==
    [UUID |-> id, Type |-> "MySQL", Prefix |-> "mysql",
     Properties |-> [k \in {DsnKey} |-> d]]

OSRec(id) ==
    [UUID |-> id, Type |-> "OS", Prefix |-> "os", Properties |-> NoProps]

\* the records callers and the remote API hand to the repository: a MySQL
\* instance under every id, and an OS instance under the first id as well
Records ==
    {MySQLRec(id, d) : id \in Ids, d \in Dsns} \cup {OSRec(IdOf(1))}

\* Add takes any record: it does not look at the form of the UUID
AddRecords == Records \cup {OSRec(NonHexId)}

NoRec == [UUID |-> <<>>, Type |-> "", Prefix |-> "", Properties |-> NoProps]

isMySQLConfig(inst) == inst.Type = "MySQL" /\ inst.Prefix = "mysql"

isOSConfig(inst) == inst.Type = "OS" /\ inst.Prefix = "os"

----------------------------------------------------------------------------
(* JSON bodies: a body is a sequence of tokens *)

RECURSIVE propTokens(_, _)
propTokens(props, i) ==
    IF i > Len(PropKeys) THEN <<>>
    ELSE (IF PropKeys[i] \in DOMAIN props
          THEN <<PropKeys[i], props[PropKeys[i]]>>
          ELSE <<>>) \o propTokens(props, i + 1)

\* json.Marshal of a proto.InstanceConfig
Marshal(r) ==
    <<"{", "Type", r.Type, "Prefix", r.Prefix, "UUID", r.UUID,
      "Properties", "{">> \o propTokens(r.Properties, 1) \o <<"}", "}">>

NullBody == <<"null">>

GarbageBody == <<"{", "Type">>

\* a file the process cannot read (ioutil.ReadFile fails)
Unreadable == <<"EACCES">>

\* tokens before the first property: { Type t Prefix p UUID u Properties {
HeaderLen ==
    Len(<<"{", "Type", "t", "Prefix", "p", "UUID", "u", "Properties", "{">>)

WellFormedBody(b) ==
    /\ Len(b) >= HeaderLen + 2
    /\ (Len(b) - HeaderLen) % 2 = 0
    /\ b[1] = "{" /\ b[2] = "Type" /\ b[4] = "Prefix" /\ b[6] = "UUID"
    /\ b[8] = "Properties" /\ b[9] = "{"
    /\ b[Len(b) - 1] = "}" /\ b[Len(b)] = "}"

IsNull(b) == Len(b) = 1 /\ b[1] = "null"

\* json.Unmarshal succeeds: the body is JSON (null included)
Decodable(b) == IsNull(b) \/ WellFormedBody(b)

\* json.Unmarshal into a *proto.InstanceConfig (of a well-formed body)
Unmarshal(b) ==
    LET n == (Len(b) - HeaderLen - 2) \div 2
        keys == {b[HeaderLen + 2 * j - 1] : j \in 1..n}
    IN [UUID |-> b[7], Type |-> b[3], Prefix |-> b[5],
        Properties |->
            [k \in keys |->
                b[HeaderLen + 2 * (CHOOSE j \in 1..n :
                                     b[HeaderLen + 2 * j - 1] = k)]]]

----------------------------------------------------------------------------
(* File names *)

Dash == P("-", 1)

InstancePrefix == <<P("instance", 1), Dash>>

ConfSuffix == <<".">>

\* strings.Split(s, "-"); a dash is always a piece of its own
RECURSIVE Split(_, _)
Split(s, sep) ==
    IF \A i \in 1..Len(s) : s[i] # sep THEN <<s>>
    ELSE LET k == CHOOSE i \in 1..Len(s) :
                     s[i] = sep /\ \A j \in 1..(i - 1) : s[j] # sep
         IN <<SubSeq(s, 1, k - 1)>> \o Split(SubSeq(s, k + 1, Len(s)), sep)

\* byte-wise order of two character sequences
RECURSIVE LexLess(_, _)
LexLess(a, b) ==
    IF a = <<>> THEN b # <<>>
    ELSE IF b = <<>> THEN FALSE
    ELSE IF Head(a) # Head(b) THEN Ord(Head(a)) < Ord(Head(b))
    ELSE LexLess(Tail(a), Tail(b))

\* the order of sort.Strings on file names x.conf and y.conf: equal leading
\* pieces are skipped, the rest is compared character by character
RECURSIVE NameLess(_, _)
NameLess(x, y) ==
    IF x # <<>> /\ y # <<>> /\ Head(x) = Head(y)
    THEN NameLess(Tail(x), Tail(y))
    ELSE LexLess(Chars(x) \o ConfSuffix, Chars(y) \o ConfSuffix)

\* filepath.Glob(configDir + "/instance-*.conf"): the names, sorted
RECURSIVE Glob(_)
Glob(S) ==
    IF S = {} THEN <<>>
    ELSE LET m == CHOOSE x \in S :
                     \A y \in S \ {x} : NameLess(x, y)
         IN <<m>> \o Glob(S \ {m})

\* configName that leaves the prefix out
configNameNoPrefix(id) == id

\* Repo.configName
configName(id) == InstancePrefix \o id

\* the file Remove deletes: configDir + "/instance-" + id + ".conf"
removeName(id) == InstancePrefix \o id

----------------------------------------------------------------------------
(* Repo: the operations as functions of the map and the directory *)

ErrNil == "nil"

\* pct.Basedir.WriteConfig(name, config): config/<name>.conf := JSON of config;
\* writeOk is the outcome of the write (a failed write leaves no file behind)
WriteConfig(fs, name, config, writeOk) ==
    IF writeOk
    THEN [files |-> [n \in DOMAIN fs \cup {name} |->
                        IF n = name THEN Marshal(config) ELSE fs[n]],
          err |-> ErrNil]
    ELSE [files |-> fs, err |-> "WriteConfig"]

\* add that takes a UUID twice
addNoDuplicateCheck(m, fs, rec, writeToDisk, writeOk) ==
    LET w == IF writeToDisk
             THEN WriteConfig(fs, configName(rec.UUID), rec, writeOk)
             ELSE [files |-> fs, err |-> ErrNil]
    IN IF w.err # ErrNil
       THEN [it |-> m, files |-> fs, err |-> w.err, io |-> 1]
       ELSE [it |-> [u \in DOMAIN m \cup {rec.UUID} |->
                        IF u = rec.UUID THEN rec ELSE m[u]],
             files |-> w.files, err |-> ErrNil,
             io |-> IF writeToDisk THEN 1 ELSE 0]

\* add that reports a duplicate and stores the record all the same
addOverwrites(m, fs, rec, writeToDisk, writeOk) ==
    IF rec.UUID \in DOMAIN m
    THEN [it |-> [u \in DOMAIN m |-> IF u = rec.UUID THEN rec ELSE m[u]],
          files |-> fs, err |-> "DuplicateInstance", io |-> 0]
    ELSE [it |-> [u \in DOMAIN m \cup {rec.UUID} |->
                     IF u = rec.UUID THEN rec ELSE m[u]],
          files |-> fs, err |-> ErrNil, io |-> 0]

\* add that never writes the file
addMemoryOnly(m, fs, rec, writeToDisk, writeOk) ==
    IF rec.UUID \in DOMAIN m
    THEN [it |-> m, files |-> fs, err |-> "DuplicateInstance", io |-> 0]
    ELSE [it |-> [u \in DOMAIN m \cup {rec.UUID} |->
                     IF u = rec.UUID THEN rec ELSE m[u]],
          files |-> fs, err |-> ErrNil, io |-> 0]

\* Repo.add
add(m, fs, rec, writeToDisk, writeOk) ==
    IF rec.UUID \in DOMAIN m
    THEN [it |-> m, files |-> fs, err |-> "DuplicateInstance", io |-> 0]
    ELSE LET w == IF writeToDisk
                  THEN WriteConfig(fs, configName(rec.UUID), rec, writeOk)
                  ELSE [files |-> fs, err |-> ErrNil]
         IN IF w.err # ErrNil
            THEN [it |-> m, files |-> fs, err |-> w.err, io |-> 1]
            ELSE [it |-> [u \in DOMAIN m \cup {rec.UUID} |->
                             IF u = rec.UUID THEN rec ELSE m[u]],
                  files |-> w.files, err |-> ErrNil,
                  io |-> IF writeToDisk THEN 1 ELSE 0]

NextId(id) ==
    LET k == CHOOSE i \in 1..NumIds : IdOf(i) = id
    IN IdOf((k % NumIds) + 1)

\* what the remote GET <link>/<id> can answer: a transport error, a status
\* other than 200, 200 without data, 200 with data that is not JSON, 200 with
\* null, 200 with the JSON of a record: a record of id, or the record of
\* another id; writeOk is the outcome of the file write that follows a
\* decoded record
Answers(id) ==
    {[kind |-> k, data |-> <<>>, writeOk |-> TRUE] :
        k \in {"error", "code404", "nodata"}}
    \cup {[kind |-> "code200", data |-> d, writeOk |-> TRUE] :
            d \in {GarbageBody, NullBody}}
    \cup {[kind |-> "code200", data |-> Marshal(r), writeOk |-> w] :
            r \in {x \in Records : x.UUID = id}
                  \cup {MySQLRec(NextId(id), "D1")},
            w \in BOOLEAN}

getResult(m, fs, e, r, n, i, rs) ==
    [it |-> m, files |-> fs, err |-> e, ret |-> r, net |-> n, io |-> i,
     resps |-> rs]

\* get that returns the fetched record without saving it
getNoSave(m, fs, link, id, n, i, rs) ==
    IF ~valid(id)
    THEN {getResult(m, fs, "InvalidInstance", {}, n, i, rs)}
    ELSE IF id \in DOMAIN m
    THEN {getResult(m, fs, ErrNil, {m[id]}, n, i, rs)}
    ELSE IF link = ""
    THEN {getResult(m, fs, "UnknownInstance", {}, n, i, rs)}
    ELSE {IF resp.kind = "code200" /\ WellFormedBody(resp.data)
          THEN getResult(m, fs, ErrNil, {Unmarshal(resp.data)}, n + 1, i,
                         Append(rs, resp))
          ELSE getResult(m, fs, "GetFailed", {}, n + 1, i, Append(rs, resp))
          : resp \in Answers(id)}

\* Repo.get: every outcome it can have, over the answers of the remote API
\* and the outcomes of the file writes; n and i count the remote requests
\* and the file system calls made so far, rs lists the answers consumed
RECURSIVE get(_, _, _, _, _, _, _)
get(m, fs, link, id, n, i, rs) ==
    IF ~valid(id)
    THEN {getResult(m, fs, "InvalidInstance", {}, n, i, rs)}
    ELSE IF id \in DOMAIN m
    THEN {getResult(m, fs, ErrNil, {m[id]}, n, i, rs)}
    ELSE IF link = ""
    THEN {getResult(m, fs, "UnknownInstance", {}, n, i, rs)}
    ELSE UNION {
        LET rs1 == Append(rs, resp) IN
        CASE resp.kind = "error" ->
               {getResult(m, fs, "GetFailed", {}, n + 1, i, rs1)}
          [] resp.kind = "code404" ->
               {getResult(m, fs, "NotCode200", {}, n + 1, i, rs1)}
          [] resp.kind = "nodata" ->
               {getResult(m, fs, "NoData", {}, n + 1, i, rs1)}
          [] resp.kind = "code200" ->
               IF ~Decodable(resp.data)
               THEN {getResult(m, fs, "Unmarshal", {}, n + 1, i, rs1)}
               ELSE IF IsNull(resp.data)
               THEN {getResult(m, fs, "panic", {}, n + 1, i, rs1)}
               ELSE LET a == add(m, fs, Unmarshal(resp.data), TRUE,
                                 resp.writeOk)
                    IN IF a.err # ErrNil
                       THEN {getResult(m, fs, "AddFailed", {}, n + 1,
                                       i + a.io, rs1)}
                       ELSE get(a.it, a.files, link, id, n + 1, i + a.io,
                                rs1)
        : resp \in Answers(id) }

\* Remove that deletes the map entry before the file
RemoveEntryFirst(m, fs, id, rmOk) ==
    IF ~valid(id)
    THEN [it |-> m, files |-> fs, err |-> "InvalidInstance", io |-> 0]
    ELSE IF id \notin DOMAIN m
    THEN [it |-> m, files |-> fs, err |-> "UnknownInstance", io |-> 0]
    ELSE IF removeName(id) \notin DOMAIN fs \/ ~rmOk
    THEN [it |-> [u \in DOMAIN m \ {id} |-> m[u]], files |-> fs,
          err |-> "osRemove", io |-> 1]
    ELSE [it |-> [u \in DOMAIN m \ {id} |-> m[u]],
          files |-> [n \in DOMAIN fs \ {removeName(id)} |-> fs[n]],
          err |-> ErrNil, io |-> 1]

\* Remove that forgets delete(r.it, id)
RemoveKeepsEntry(m, fs, id, rmOk) ==
    IF ~valid(id)
    THEN [it |-> m, files |-> fs, err |-> "InvalidInstance", io |-> 0]
    ELSE IF id \notin DOMAIN m
    THEN [it |-> m, files |-> fs, err |-> "UnknownInstance", io |-> 0]
    ELSE IF removeName(id) \notin DOMAIN fs \/ ~rmOk
    THEN [it |-> m, files |-> fs, err |-> "osRemove", io |-> 1]
    ELSE [it |-> m,
          files |-> [n \in DOMAIN fs \ {removeName(id)} |-> fs[n]],
          err |-> ErrNil, io |-> 1]

\* Repo.Remove; rmOk is the outcome of os.Remove on an existing file
Remove(m, fs, id, rmOk) ==
    IF ~valid(id)
    THEN [it |-> m, files |-> fs, err |-> "InvalidInstance", io |-> 0]
    ELSE IF id \notin DOMAIN m
    THEN [it |-> m, files |-> fs, err |-> "UnknownInstance", io |-> 0]
    ELSE IF removeName(id) \notin DOMAIN fs \/ ~rmOk
    THEN [it |-> m, files |-> fs, err |-> "osRemove", io |-> 1]
    ELSE [it |-> [u \in DOMAIN m \ {id} |-> m[u]],
          files |-> [n \in DOMAIN fs \ {removeName(id)} |-> fs[n]],
          err |-> ErrNil, io |-> 1]

\* Repo.List: the records of the map, in no order
List(m) == {m[u] : u \in DOMAIN m}

loadResult(m, e, k, nr) == [it |-> m, err |-> e, at |-> k, io |-> nr]

\* Repo.loadInstances from the k-th file of the sorted list on; nr counts the
\* files read so far
RECURSIVE loadFrom(_, _, _, _, _)
loadFrom(list, k, m, fs, nr) ==
    IF k > Len(list) THEN loadResult(m, ErrNil, 0, nr)
    ELSE LET file == list[k]
             part == Split(file, Dash)
         IN IF Len(part) # 2
            THEN loadResult(m, "InvalidFileName", k, nr)
            ELSE IF ~valid(part[2])
            THEN loadResult(m, "InvalidFileName", k, nr)
            ELSE IF fs[file] = Unreadable
            THEN loadResult(m, "ReadFile", k, nr + 1)
            ELSE IF ~Decodable(fs[file])
            THEN loadResult(m, "Unmarshal", k, nr + 1)
            ELSE IF IsNull(fs[file])
            THEN loadResult(m, "panic", k, nr + 1)
            ELSE LET a == add(m, fs, Unmarshal(fs[file]), FALSE, TRUE)
                 IN IF a.err # ErrNil
                    THEN loadResult(m, "AddFailed", k, nr + 1)
                    ELSE loadFrom(list, k + 1, a.it, fs, nr + 1)

\* loadInstances that skips the first file of the list
loadInstancesSkipFirst(m, fs) == loadFrom(Glob(DOMAIN fs), 2, m, fs, 0)

\* Repo.loadInstances
loadInstances(m, fs) == loadFrom(Glob(DOMAIN fs), 1, m, fs, 0)

----------------------------------------------------------------------------
(* Repo: the calls *)

OpRec(o, id, arg, p, e, r, n, i, k, rs) ==
    [op |-> o, id |-> id, arg |-> arg, persist |-> p, err |-> e, ret |-> r,
     net |-> n, io |-> i, at |-> k, resps |-> rs]

NoOp == OpRec("none", <<>>, NoRec, FALSE, ErrNil, {}, 0, 0, 0, <<>>)

\* the execution contexts: the caller of Handle and Start, the polling task
\* of the monitor, the resync task of the Manager
Contexts == {"caller", "poll", "resync"}

\* no context is in a call
NoStacks == [c \in Contexts |-> <<>>]

\* no Init is under way
NoScan == [pc |-> "idle", list |-> <<>>, k |-> 0]

\* the ids callers pass to Get and Remove
CallIds == Ids \cup BadIds

\* Repo.Init()
Repo_Init ==
    /\ ~crashed
    /\ LET r == loadInstances(it, files)
       IN /\ it' = r.it
          /\ crashed' = (r.err = "panic")
          /\ lastOp' = OpRec("Init", <<>>, NoRec, FALSE, r.err, {}, 0, r.io,
                             r.at, <<>>)
    /\ UNCHANGED <<files, apiLink>>
    /\ UNCHANGED <<scan, stacks>>
    /\ UNCHANGED monVars
    /\ UNCHANGED mgrVars

\* Repo.Add(it, writeToDisk)
Repo_Add ==
    /\ ~crashed
    /\ \E rec \in AddRecords, writeToDisk \in BOOLEAN :
       \E writeOk \in IF writeToDisk THEN BOOLEAN ELSE {TRUE} :
          LET r == add(it, files, rec, writeToDisk, writeOk)
          IN /\ it' = r.it
             /\ files' = r.files
             /\ lastOp' = OpRec("Add", rec.UUID, rec, writeToDisk, r.err, {},
                                0, r.io, 0, <<>>)
    /\ UNCHANGED <<apiLink, crashed>>
    /\ UNCHANGED <<scan, stacks>>
    /\ UNCHANGED monVars
    /\ UNCHANGED mgrVars

\* Repo.Get(id)
Repo_Get ==
    /\ ~crashed
    /\ \E id \in CallIds :
          \E r \in get(it, files, apiLink, id, 0, 0, <<>>) :
             /\ it' = r.it
             /\ files' = r.files
             /\ crashed' = (r.err = "panic")
             /\ lastOp' = OpRec("Get", id, NoRec, FALSE, r.err, r.ret, r.net,
                                r.io, 0, r.resps)
    /\ UNCHANGED apiLink
    /\ UNCHANGED <<scan, stacks>>
    /\ UNCHANGED monVars
    /\ UNCHANGED mgrVars

\* Repo.Remove(id)
Repo_Remove ==
    /\ ~crashed
    /\ \E id \in CallIds :
       \E rmOk \in IF removeName(id) \in DOMAIN files THEN BOOLEAN
                   ELSE {FALSE} :
          LET r == Remove(it, files, id, rmOk)
          IN /\ it' = r.it
             /\ files' = r.files
             /\ lastOp' = OpRec("Remove", id, NoRec, FALSE, r.err, {}, 0,
                                r.io, 0, <<>>)
    /\ UNCHANGED <<apiLink, crashed>>
    /\ UNCHANGED <<scan, stacks>>
    /\ UNCHANGED monVars
    /\ UNCHANGED mgrVars

\* Repo.List()
Repo_List ==
    /\ ~crashed
    /\ lastOp' = OpRec("List", <<>>, NoRec, FALSE, ErrNil, List(it), 0, 0, 0,
                       <<>>)
    /\ UNCHANGED <<it, files, apiLink, crashed>>
    /\ UNCHANGED <<scan, stacks>>
    /\ UNCHANGED monVars
    /\ UNCHANGED mgrVars

----------------------------------------------------------------------------
(* RestartMonitor (mrms/monitor) *)

\* the connection strings callers hand to the monitor
Targets == {"D1", "D2"}

\* NewSubscribers
NewSubscribers == {}

\* Subscribers.Add: a new channel joins the set
SubscribersAdd(subs, c) == subs \cup {c}

\* Subscribers.Remove
SubscribersRemove(subs, c) == subs \ {c}

\* Subscribers.Empty
SubscribersEmpty(subs) == subs = {}

\* Subscribers.Notify: a non-blocking send on every channel of the set; a
\* channel whose buffer is full is passed over
SubscribersNotify(subs, ch) ==
    [c \in DOMAIN ch |->
        IF c \in subs /\ ch[c] < ChanCap THEN ch[c] + 1 ELSE ch[c]]

MysqlInstance(subs, fp) == [Subscribers |-> subs, baseline |-> fp]

\* NewMysqlInstance: reads the baseline fingerprint off the server; fails
\* when the server cannot be reached
NewMysqlInstance(srv, subs) ==
    IF srv.up
    THEN [mi |-> MysqlInstance(subs, srv.fp), err |-> ErrNil]
    ELSE [mi |-> MysqlInstance(subs, 0), err |-> "connect"]

\* MysqlInstance.CheckIfMysqlRestarted: the fingerprint of a reachable server
\* differs from the baseline; the baseline is then the new fingerprint
CheckIfMysqlRestarted(mi, srv) ==
    IF srv.up /\ srv.fp # mi.baseline
    THEN [restarted |-> TRUE, mi |-> MysqlInstance(mi.Subscribers, srv.fp)]
    ELSE [restarted |-> FALSE, mi |-> mi]

\* Monitor.createMysqlInstance
createMysqlInstance(srv) == NewMysqlInstance(srv, NewSubscribers)

\* Remove that leaves the channel subscribed while others are
MonRemoveKeepsChannel(mis, dsn, c) ==
    IF dsn \in DOMAIN mis /\ SubscribersEmpty(mis[dsn].Subscribers \ {c})
    THEN [d \in DOMAIN mis \ {dsn} |-> mis[d]]
    ELSE mis

\* Remove that keeps a target whose last channel is gone
MonRemoveKeepsTarget(mis, dsn, c) ==
    IF dsn \in DOMAIN mis
    THEN [d \in DOMAIN mis |->
             IF d = dsn
             THEN MysqlInstance(SubscribersRemove(mis[d].Subscribers, c),
                                mis[d].baseline)
             ELSE mis[d]]
    ELSE mis

\* Check that finds the restarts and notifies nobody
CheckNoNotify(mis, ch, srv) ==
    LET res == [d \in DOMAIN mis |-> CheckIfMysqlRestarted(mis[d], srv[d])]
    IN [mysqlInstances |-> [d \in DOMAIN mis |-> res[d].mi],
        chans |-> ch,
        checked |-> DOMAIN mis,
        restarted |-> {d \in DOMAIN mis : res[d].restarted}]

\* Add that keeps the instance it made although its baseline could not be read
MonAddKeepsFailed(mis, dsn, srv, c) ==
    LET made == IF dsn \in DOMAIN mis
                THEN [mi |-> mis[dsn], err |-> ErrNil]
                ELSE createMysqlInstance(srv)
    IN [mysqlInstances |->
           [d \in DOMAIN mis \cup {dsn} |->
               IF d = dsn
               THEN MysqlInstance(
                        IF made.err = ErrNil
                        THEN SubscribersAdd(made.mi.Subscribers, c)
                        ELSE made.mi.Subscribers,
                        made.mi.baseline)
               ELSE mis[d]],
        c |-> IF made.err = ErrNil THEN {c} ELSE {},
        err |-> made.err]

\* Monitor.Add; c is the channel Subscribers.Add makes
MonAdd(mis, dsn, srv, c) ==
    LET made == IF dsn \in DOMAIN mis
                THEN [mi |-> mis[dsn], err |-> ErrNil]
                ELSE createMysqlInstance(srv)
    IN IF made.err # ErrNil
       THEN [mysqlInstances |-> mis, c |-> {}, err |-> made.err]
       ELSE [mysqlInstances |->
                [d \in DOMAIN mis \cup {dsn} |->
                    IF d = dsn
                    THEN MysqlInstance(
                             SubscribersAdd(made.mi.Subscribers, c),
                             made.mi.baseline)
                    ELSE mis[d]],
             c |-> {c}, err |-> ErrNil]

\* Monitor.Remove
MonRemove(mis, dsn, c) ==
    IF dsn \in DOMAIN mis
    THEN LET subs == SubscribersRemove(mis[dsn].Subscribers, c)
         IN IF SubscribersEmpty(subs)
            THEN [d \in DOMAIN mis \ {dsn} |-> mis[d]]
            ELSE [d \in DOMAIN mis |->
                     IF d = dsn THEN MysqlInstance(subs, mis[d].baseline)
                     ELSE mis[d]]
    ELSE mis

\* the channels of the targets in D
SubscribersOf(mis, D) == UNION {mis[d].Subscribers : d \in D}

\* Subscribers.Notify: the channels of the set passed over, their buffer full
PassedOver(subs, ch) == {c \in subs : ch[c] >= ChanCap}

\* Check that gives the tick up when a subscriber's buffer is full: nobody is
\* notified and no baseline is renewed
CheckStopsAtFull(mis, ch, srv) ==
    LET res == [d \in DOMAIN mis |-> CheckIfMysqlRestarted(mis[d], srv[d])]
        hit == {d \in DOMAIN mis : res[d].restarted}
    IN IF PassedOver(SubscribersOf(mis, hit), ch) # {}
       THEN [mysqlInstances |-> mis, chans |-> ch, checked |-> {},
             restarted |-> {}]
       ELSE [mysqlInstances |-> [d \in DOMAIN mis |-> res[d].mi],
             chans |-> SubscribersNotify(SubscribersOf(mis, hit), ch),
             checked |-> DOMAIN mis,
             restarted |-> hit]

\* Check that gives the tick up when a server cannot be reached
CheckAbortsOnFailure(mis, ch, srv) ==
    LET res == [d \in DOMAIN mis |-> CheckIfMysqlRestarted(mis[d], srv[d])]
        hit == {d \in DOMAIN mis : res[d].restarted}
    IN IF \E d \in DOMAIN mis : ~srv[d].up
       THEN [mysqlInstances |-> mis, chans |-> ch, checked |-> {},
             restarted |-> {}]
       ELSE [mysqlInstances |-> [d \in DOMAIN mis |-> res[d].mi],
             chans |-> SubscribersNotify(SubscribersOf(mis, hit), ch),
             checked |-> DOMAIN mis,
             restarted |-> hit]

\* Monitor.Check: every instance of the map is checked, and the subscribers
\* of those that restarted are notified
Check(mis, ch, srv) ==
    LET res == [d \in DOMAIN mis |-> CheckIfMysqlRestarted(mis[d], srv[d])]
        hit == {d \in DOMAIN mis : res[d].restarted}
    IN [mysqlInstances |-> [d \in DOMAIN mis |-> res[d].mi],
        chans |-> SubscribersNotify(SubscribersOf(mis, hit), ch),
        checked |-> DOMAIN mis,
        restarted |-> hit]

MonRec(o, dsn, c, e, D, R) ==
    [op |-> o, dsn |-> dsn, c |-> c, err |-> e, checked |-> D,
     restarted |-> R]

NoMonOp == MonRec("none", "", {}, ErrNil, {}, {})

\* Monitor.Add(dsn)
Monitor_Add ==
    /\ Len(chans) < MaxChans
    /\ \E dsn \in Targets :
          LET c == Len(chans) + 1
              r == MonAdd(mysqlInstances, dsn, server[dsn], c)
          IN /\ mysqlInstances' = r.mysqlInstances
             /\ chans' = IF r.err = ErrNil THEN Append(chans, 0) ELSE chans
             /\ held' = IF r.err = ErrNil
                        THEN [x \in DOMAIN held \cup {c} |->
                                 IF x = c THEN dsn ELSE held[x]]
                        ELSE held
             /\ monOp' = MonRec("Add", dsn, r.c, r.err, {}, {})
    /\ UNCHANGED server
    /\ UNCHANGED pollVars
    /\ UNCHANGED repoVars
    /\ UNCHANGED stacks
    /\ UNCHANGED mgrVars

\* Monitor.Remove(dsn, c), of any channel the monitor has handed out
Monitor_Remove ==
    /\ \E dsn \in Targets, c \in DOMAIN chans :
          /\ mysqlInstances' = MonRemove(mysqlInstances, dsn, c)
          /\ held' = [x \in {y \in DOMAIN held : ~(y = c /\ held[y] = dsn)}
                         |-> held[x]]
          /\ monOp' = MonRec("Remove", dsn, {c}, ErrNil, {}, {})
    /\ UNCHANGED <<chans, server>>
    /\ UNCHANGED pollVars
    /\ UNCHANGED repoVars
    /\ UNCHANGED stacks
    /\ UNCHANGED mgrVars

\* Monitor.Check(): one tick of the polling task; the record keeps the
\* channels that were passed over
Monitor_Check ==
    /\ LET r == Check(mysqlInstances, chans, server)
       IN /\ mysqlInstances' = r.mysqlInstances
          /\ chans' = r.chans
          /\ monOp' = MonRec("Check", "",
                             PassedOver(SubscribersOf(mysqlInstances,
                                                      r.restarted), chans),
                             ErrNil, r.checked, r.restarted)
    /\ UNCHANGED <<server, held>>
    /\ UNCHANGED pollVars
    /\ UNCHANGED repoVars
    /\ UNCHANGED stacks
    /\ UNCHANGED mgrVars

\* a MySQL server goes down
Server_Stop ==
    /\ \E d \in Targets :
          /\ server[d].up
          /\ server' = [server EXCEPT ![d].up = FALSE]
    /\ monOp' = MonRec("ServerStop", "", {}, ErrNil, {}, {})
    /\ UNCHANGED <<mysqlInstances, chans, held>>
    /\ UNCHANGED pollVars
    /\ UNCHANGED repoVars
    /\ UNCHANGED stacks
    /\ UNCHANGED mgrVars

\* a MySQL server that was down comes up: it has restarted
Server_Start ==
    /\ \E d \in Targets :
          /\ ~server[d].up
          /\ server[d].fp < MaxRestarts
          /\ server' = [server EXCEPT ![d].up = TRUE, ![d].fp = @ + 1]
    /\ monOp' = MonRec("ServerStart", "", {}, ErrNil, {}, {})
    /\ UNCHANGED <<mysqlInstances, chans, held>>
    /\ UNCHANGED pollVars
    /\ UNCHANGED repoVars
    /\ UNCHANGED stacks
    /\ UNCHANGED mgrVars

\* a subscriber takes a signal off its channel
Subscriber_Receive ==
    /\ \E c \in DOMAIN chans :
          /\ chans[c] > 0
          /\ chans' = [chans EXCEPT ![c] = @ - 1]
    /\ monOp' = MonRec("Receive", "", {}, ErrNil, {}, {})
    /\ UNCHANGED <<mysqlInstances, server, held>>
    /\ UNCHANGED pollVars
    /\ UNCHANGED repoVars
    /\ UNCHANGED stacks
    /\ UNCHANGED mgrVars

\* a Manager call: the command name (or the key the resync task received) and
\* the payload, the error and the data of the reply, the name an
\* Unknown-command error carries, the files written, the connection strings
\* probed, the PUTs sent, the channels mrm.Add returned and the (dsn, channel)
\* pairs given to mrm.Remove
MgrRec(o, arg, payload, e, data, conns, puts, added, removed) ==
    [op |-> o, arg |-> arg, payload |-> payload, err |-> e, name |-> "",
     saved |-> {}, data |-> data, conns |-> conns, puts |-> puts,
     added |-> added, removed |-> removed]

NoMgrOp == MgrRec("none", "", <<>>, ErrNil, {}, {}, {}, {}, {})

\* NewManager: no channel recorded, no resync task
MgrNew ==
    /\ mrmChans = [d \in {} |-> 0]
    /\ feed = {}
    /\ resync = "none"
    /\ mgrOp = NoMgrOp

\* NewMonitor; the servers are up
MonNew ==
    /\ mysqlInstances = [d \in {} |-> MysqlInstance({}, 0)]
    /\ chans = <<>>
    /\ server = [d \in Targets |-> [up |-> TRUE, fp |-> 0]]
    /\ held = [c \in {} |-> ""]
    /\ monOp = NoMonOp
    /\ stop = 0
    /\ tasks = <<>>

InitMon ==
    /\ MonNew
    /\ MgrNew
    /\ it = [u \in {} |-> NoRec]
    /\ files = [n \in {} |-> <<>>]
    /\ apiLink = ""
    /\ crashed = FALSE
    /\ lastOp = NoOp
    /\ scan = NoScan
    /\ stacks = NoStacks

NextMon ==
    \/ Monitor_Add
    \/ Monitor_Remove
    \/ Monitor_Check
    \/ Server_Stop
    \/ Server_Start
    \/ Subscriber_Receive

\* the monitor, its callers, its subscribers and the servers it watches
SpecMon == InitMon /\ [][NextMon]_vars

----------------------------------------------------------------------------
(* RestartMonitor: Start, Stop and the polling task *)

\* make(chan bool, 1): the buffer of Monitor.stop
StopCap == 1

\* Stop whose send waits for room in the buffer
StopBlocking(st) ==
    IF st < StopCap
    THEN [stop |-> st + 1, err |-> ErrNil, blocked |-> FALSE]
    ELSE [stop |-> st, err |-> ErrNil, blocked |-> TRUE]

\* Monitor.Stop: select { case m.stop <- true: default: }; return nil
Stop(st) ==
    IF st < StopCap
    THEN [stop |-> st + 1, err |-> ErrNil, blocked |-> FALSE]
    ELSE [stop |-> st, err |-> ErrNil, blocked |-> FALSE]

\* Monitor.Start: go func() { ... }(); the new task is about to run its
\* first check
Start(ts) == Append(ts, "first")

\* Monitor.Start()
Monitor_Start ==
    /\ Len(tasks) < MaxTasks
    /\ tasks' = Start(tasks)
    /\ monOp' = MonRec("Start", "", {}, ErrNil, {}, {})
    /\ UNCHANGED <<mysqlInstances, chans, server, held, stop>>
    /\ UNCHANGED repoVars
    /\ UNCHANGED stacks
    /\ UNCHANGED mgrVars

\* Monitor.Stop()
Monitor_Stop ==
    /\ LET r == Stop(stop)
       IN /\ ~r.blocked
          /\ stop' = r.stop
          /\ monOp' = MonRec("Stop", "", {}, r.err, {}, {})
    /\ UNCHANGED <<mysqlInstances, chans, server, held, tasks>>
    /\ UNCHANGED repoVars
    /\ UNCHANGED stacks
    /\ UNCHANGED mgrVars

\* the polling task t runs m.Check(): at once after Start (from "first"), and
\* then whenever its sleep of one second is over (from "loop")
Poll_Check ==
    /\ \E t \in DOMAIN tasks :
          /\ tasks[t] \in {"first", "loop"}
          /\ tasks' = [tasks EXCEPT ![t] = "loop"]
          /\ LET r == Check(mysqlInstances, chans, server)
             IN /\ mysqlInstances' = r.mysqlInstances
                /\ chans' = r.chans
                /\ monOp' = MonRec("Check", "", {t}, ErrNil, r.checked,
                                   r.restarted)
    /\ UNCHANGED <<server, held, stop>>
    /\ UNCHANGED repoVars
    /\ UNCHANGED stacks
    /\ UNCHANGED mgrVars

\* a task that takes the stop signal and goes on polling
AfterStopKeepsPolling(ts, t) == [ts EXCEPT ![t] = "loop"]

\* a stop signal that ends every polling task at once
AfterStopEndsAll(ts, t) == [x \in DOMAIN ts |-> "done"]

\* case <-m.stop: return
AfterStop(ts, t) == [ts EXCEPT ![t] = "done"]

\* the polling task t takes the stop signal: case <-m.stop: return
Poll_Exit ==
    /\ \E t \in DOMAIN tasks :
          /\ tasks[t] = "loop"
          /\ stop > 0
          /\ stop' = stop - 1
          /\ tasks' = AfterStop(tasks, t)
          /\ monOp' = MonRec("Exit", "", {t}, ErrNil, {}, {})
    /\ UNCHANGED <<mysqlInstances, chans, server, held>>
    /\ UNCHANGED repoVars
    /\ UNCHANGED stacks
    /\ UNCHANGED mgrVars

NextPoll ==
    \/ Monitor_Start
    \/ Monitor_Stop
    \/ Poll_Check
    \/ Poll_Exit
    \/ Monitor_Add

\* the monitor with its polling tasks, and callers that subscribe
SpecPoll == InitMon /\ [][NextPoll]_vars

\* the polling tasks are scheduled: a sleep of one second ends, so the check
\* of a task that polls is run; and while a stop signal is buffered the case
\* <-m.stop of select is ready at once, so a task that polls takes it
SpecPollFair ==
    /\ SpecPoll
    /\ WF_vars(Poll_Check)
    /\ WF_vars(Poll_Exit)

----------------------------------------------------------------------------
(* The configuration directory at start *)

MalformedStem == <<P("b", 1), Dash, P("c", 1)>>

BadStems == {MalformedStem, NonHexId}

\* what the file named after id can hold at start: the record of id, the
\* record of another id, a body that is not JSON, null, or nothing readable
StartBodies(id) ==
    {Marshal(MySQLRec(id, "D1")), Marshal(OSRec(NextId(id))),
     GarbageBody, NullBody, Unreadable}

\* directories whose files are named after ids
IdDirs(bodies) ==
    UNION {
        {[n \in {InstancePrefix \o id : id \in S} |->
              f[SubSeq(n, Len(InstancePrefix) + 1, Len(n))]] :
           f \in {g \in [S -> UNION {bodies[id] : id \in Ids}] :
                     \A id \in S : g[id] \in bodies[id]}}
        : S \in SUBSET Ids }

WithBadNames(dirs) ==
    UNION {
        {[n \in DOMAIN d \cup {InstancePrefix \o b : b \in B} |->
              IF n \in DOMAIN d THEN d[n] ELSE GarbageBody] : d \in dirs}
        : B \in SUBSET BadStems }

RepoNew ==
    /\ it = [u \in {} |-> NoRec]
    /\ crashed = FALSE
    /\ lastOp = NoOp
    /\ scan = NoScan
    /\ stacks = NoStacks
    /\ MonNew
    /\ MgrNew

\* a new Repo over any directory
InitLoad ==
    /\ RepoNew
    /\ files \in WithBadNames(IdDirs([id \in Ids |-> StartBodies(id)]))
    /\ apiLink = ""

NextLoad ==
    \/ Repo_Init
    \/ Repo_List
    \/ Repo_Remove

\* start-up: Init, List and Remove over every directory of the model
SpecLoad == InitLoad /\ [][NextLoad]_vars

\* decodable files: the file of an id holds the record of the id; the file
\* of the first id may hold the record of another id instead
GoodBodies(id) ==
    {Marshal(MySQLRec(id, "D1"))}
    \cup (IF id = IdOf(1) THEN {Marshal(OSRec(NextId(id)))} ELSE {})

InitRepo ==
    /\ RepoNew
    /\ files \in IdDirs([id \in Ids |-> GoodBodies(id)])
    /\ apiLink \in {"", "http://localhost/insts"}

NextRepo ==
    \/ Repo_Init
    \/ Repo_Add
    \/ Repo_Get
    \/ Repo_Remove
    \/ Repo_List

\* every sequence of Repo calls over a directory of decodable files
Spec == InitRepo /\ [][NextRepo]_vars

----------------------------------------------------------------------------
(* Repo.Init beside other callers: loadInstances takes no lock of its own *)

\* what ioutil.ReadFile finds now: a file removed since the Glob is unreadable
FilesNow(file) ==
    [n \in DOMAIN files \cup {file} |->
        IF n \in DOMAIN files THEN files[n] ELSE Unreadable]

\* Init(): loadInstances lists the files of the directory; r.mux is not taken
Scan_Begin ==
    /\ ~crashed
    /\ scan.pc = "idle"
    /\ scan' = [pc |-> "loop", list |-> Glob(DOMAIN files), k |-> 1]
    /\ lastOp' = OpRec("Glob", <<>>, NoRec, FALSE, ErrNil, {}, 0, 0, 0, <<>>)
    /\ UNCHANGED <<it, files, apiLink, crashed>>
    /\ UNCHANGED stacks
    /\ UNCHANGED monVars
    /\ UNCHANGED mgrVars

\* one turn of the loop of loadInstances: the file is read and decoded, then
\* r.Add(*it, false) takes r.mux for this one record and releases it
Scan_File ==
    /\ ~crashed
    /\ scan.pc = "loop"
    /\ IF scan.k > Len(scan.list)
       THEN /\ scan' = NoScan
            /\ lastOp' = OpRec("Init", <<>>, NoRec, FALSE, ErrNil, {}, 0, 0,
                               0, <<>>)
            /\ UNCHANGED <<it, crashed>>
       ELSE LET file == scan.list[scan.k]
                r == loadFrom(<<file>>, 1, it, FilesNow(file), 0)
            IN IF r.err = ErrNil
               THEN /\ it' = r.it
                    /\ scan' = [scan EXCEPT !.k = @ + 1]
                    /\ lastOp' = OpRec("Scan", <<>>, NoRec, FALSE, ErrNil,
                                       {}, 0, 1, scan.k, <<>>)
                    /\ UNCHANGED crashed
               ELSE /\ scan' = NoScan
                    /\ crashed' = (r.err = "panic")
                    /\ lastOp' = OpRec("Init", <<>>, NoRec, FALSE, r.err, {},
                                       0, r.io, scan.k, <<>>)
                    /\ UNCHANGED it
    /\ UNCHANGED <<files, apiLink>>
    /\ UNCHANGED stacks
    /\ UNCHANGED monVars
    /\ UNCHANGED mgrVars

\* a new Repo over a directory of decodable files; no remote link
InitLock ==
    /\ RepoNew
    /\ files \in IdDirs([id \in Ids |-> GoodBodies(id)])
    /\ apiLink = ""

NextLock ==
    \/ Scan_Begin
    \/ Scan_File
    \/ Repo_Add
    \/ Repo_Get
    \/ Repo_Remove
    \/ Repo_List

\* one caller running Init while another calls Add, Get, Remove and List
SpecLock == InitLock /\ [][NextLock]_vars

----------------------------------------------------------------------------
(* Manager (instance manager): its parts as functions of the world *)

\* the key Handle(Remove) and mrmMySQL look the connection string up under
DnsKey == "dns"

\* what the read-only query of GetMySQLInfo returns
ProbeProps ==
    [k \in {"hostname", "distro", "version"} |->
        CASE k = "hostname" -> "h1" [] k = "distro" -> "d1"
          [] k = "version" -> "v1"]

\* it.Properties["dsn"]: the empty string when the key is missing
DsnOf(rec) ==
    IF DsnKey \in DOMAIN rec.Properties THEN rec.Properties[DsnKey] ELSE ""

\* GetMySQLInfo that reads the values and sets none
GetMySQLInfoSetsNothing(rec, srv) ==
    IF DsnOf(rec) \in DOMAIN srv /\ srv[DsnOf(rec)].up
    THEN [rec |-> rec, err |-> ErrNil, conn |-> DsnOf(rec)]
    ELSE [rec |-> rec, err |-> "connect", conn |-> DsnOf(rec)]

\* GetMySQLInfo: connects to it.Properties["dsn"] and sets hostname, distro
\* and version in it.Properties; conn is the connection string it dialled
GetMySQLInfo(rec, srv) ==
    IF DsnOf(rec) \in DOMAIN srv /\ srv[DsnOf(rec)].up
    THEN [rec |-> [rec EXCEPT !.Properties =
                      [k \in DOMAIN @ \cup DOMAIN ProbeProps |->
                          IF k \in DOMAIN ProbeProps THEN ProbeProps[k]
                          ELSE @[k]]],
          err |-> ErrNil, conn |-> DsnOf(rec)]
    ELSE [rec |-> rec, err |-> "connect", conn |-> DsnOf(rec)]

\* Manager.pushInstanceInfo: PUT <link>/<UUID> with the JSON of the record;
\* putOk is the outcome of the request (no transport error, status 200)
pushInstanceInfo(link, rec, putOk) ==
    [put |-> [uri |-> <<link, rec.UUID>>, body |-> Marshal(rec)],
     err |-> IF putOk THEN ErrNil ELSE "put"]

\* the state a Manager call acts on: the Repo's map and files, the monitor's
\* instances and channels, the subscriptions held, and Manager.mrmChans
World(m, fs, mis, ch, hd, mc) ==
    [it |-> m, files |-> fs, mysqlInstances |-> mis, chans |-> ch,
     held |-> hd, mrmChans |-> mc]

\* the outcome of a Manager call: the world it leaves, the error and the data
\* of its reply, the command name an Unknown-command error carries, the
\* files written, the connection strings probed, the PUTs sent, the channels
\* mrm.Add returned and the (dsn, channel) pairs given to mrm.Remove
Outcome(w, e, data, conns, puts, added, removed) ==
    [w |-> w, err |-> e, name |-> "", saved |-> {}, data |-> data,
     conns |-> conns, puts |-> puts, added |-> added, removed |-> removed]

\* the stored record of rec.UUID shares its Properties map with rec: what
\* GetMySQLInfo sets in the one shows in the other
StoreShared(m, rec) ==
    IF rec.UUID \in DOMAIN m
    THEN [m EXCEPT ![rec.UUID].Properties = rec.Properties]
    ELSE m

\* m.mrm.Add(dsn) as the Manager sees it: the monitor's Add with the channel
\* Subscribers.Add makes, and the subscription the caller now holds
MrmAdd(w, dsn, srv) ==
    LET c == Len(w.chans) + 1
        r == MonAdd(w.mysqlInstances, dsn,
                    IF dsn \in DOMAIN srv THEN srv[dsn]
                    ELSE [up |-> FALSE, fp |-> 0], c)
    IN IF r.err # ErrNil
       THEN [w |-> w, c |-> {}, err |-> r.err]
       ELSE [w |-> [w EXCEPT !.mysqlInstances = r.mysqlInstances,
                             !.chans = Append(@, 0),
                             !.held = [x \in DOMAIN @ \cup {c} |->
                                          IF x = c THEN dsn ELSE @[x]]],
             c |-> {c}, err |-> ErrNil]

\* m.mrm.Remove(dsn, c) as the Manager sees it
MrmRemove(w, dsn, c) ==
    [w EXCEPT !.mysqlInstances = MonRemove(@, dsn, c),
              !.held = [x \in {y \in DOMAIN @ : ~(y = c /\ @[y] = dsn)}
                           |-> @[x]]]

\* the value a call returned (S holds it), or nil when it returned none
The(S, nil) == IF S = {} THEN nil ELSE CHOOSE x \in S : TRUE

\* the outcome o of a call that wrote the files F
Saved(o, F) == [o EXCEPT !.saved = F]

\* a call that ended in a panic
Crash(w) == Outcome(w, "panic", {}, {}, {}, {}, {})

\* m.mrmChans[dsn]; the nil channel (0) when there is none
ChanOf(mc, dsn) == IF dsn \in DOMAIN mc THEN mc[dsn] ELSE 0

\* m.mrmChans[dsn] = c
Record(mc, dsn, c) ==
    [d \in DOMAIN mc \cup {dsn} |-> IF d = dsn THEN c ELSE mc[d]]

\* Handle, case "Add", which records no channel
HandleAddNoRecord(w, rec, link, srv) ==
    UNION {
        LET a == add(w.it, w.files, rec, TRUE, writeOk)
        IN IF a.err # ErrNil
           THEN {Outcome(w, a.err, {}, {}, {}, {}, {})}
           ELSE UNION {
               LET w1 == [w EXCEPT !.it = g.it, !.files = g.files]
                   wrote == {configName(rec.UUID)}
                   iit == The(g.ret, NoRec)
                   dsn == DsnOf(iit)
                   ma == MrmAdd(w1, dsn, srv)
               IN IF g.err # ErrNil \/ ~isMySQLConfig(iit)
                     \/ DsnKey \notin DOMAIN iit.Properties
                     \/ ma.err # ErrNil
                  THEN {Saved(Outcome(w1, ErrNil, {}, {}, {}, {}, {}),
                              wrote)}
                  ELSE IF Len(w1.chans) >= MaxChans THEN {}
                  ELSE {Saved(Outcome(ma.w, ErrNil, {}, {}, {}, ma.c, {}),
                              wrote)}
               : g \in get(a.it, a.files, link, rec.UUID, 0, 0, <<>>) }
        : writeOk \in BOOLEAN }

\* Handle, case "Add", which replies with the error of the probe
HandleAddReportsProbe(w, rec, link, srv) ==
    UNION {
        LET a == add(w.it, w.files, rec, TRUE, writeOk)
        IN IF a.err # ErrNil
           THEN {Outcome(w, a.err, {}, {}, {}, {}, {})}
           ELSE UNION {
               LET w1 == [w EXCEPT !.it = g.it, !.files = g.files]
                   wrote == {configName(rec.UUID)}
                   iit == The(g.ret, NoRec)
                   dsn == DsnOf(iit)
                   ma == MrmAdd(w1, dsn, srv)
                   c == The(ma.c, 0)
                   w2 == [ma.w EXCEPT !.mrmChans = Record(@, dsn, c)]
                   info == GetMySQLInfo(iit, srv)
               IN IF g.err # ErrNil \/ ~isMySQLConfig(iit)
                     \/ DsnKey \notin DOMAIN iit.Properties
                     \/ ma.err # ErrNil
                  THEN {Saved(Outcome(w1, ErrNil, {}, {}, {}, {}, {}),
                              wrote)}
                  ELSE IF Len(w1.chans) >= MaxChans THEN {}
                  ELSE IF info.err # ErrNil
                  THEN {Saved(Outcome(w2, info.err, {}, {info.conn}, {},
                                      ma.c, {}), wrote)}
                  ELSE {Saved(Outcome(
                                 [w2 EXCEPT !.it =
                                              StoreShared(@, info.rec)],
                                 ErrNil, {}, {info.conn},
                                 {pushInstanceInfo(link, info.rec,
                                                   TRUE).put},
                                 ma.c, {}), wrote)}
               : g \in get(a.it, a.files, link, rec.UUID, 0, 0, <<>>) }
        : writeOk \in BOOLEAN }

\* Handle, case "Add": over the outcomes of the file write
HandleAdd(w, rec, link, srv) ==
    UNION {
        LET a == add(w.it, w.files, rec, TRUE, writeOk)
        IN IF a.err # ErrNil
           THEN {Outcome(w, a.err, {}, {}, {}, {}, {})}
           ELSE UNION {
               LET w1 == [w EXCEPT !.it = g.it, !.files = g.files]
                   wrote == {configName(rec.UUID)}
                   iit == The(g.ret, NoRec)
                   dsn == DsnOf(iit)
                   ma == MrmAdd(w1, dsn, srv)
                   c == The(ma.c, 0)
                   w2 == [ma.w EXCEPT !.mrmChans = Record(@, dsn, c)]
                   info == GetMySQLInfo(iit, srv)
               IN IF g.err # ErrNil \/ ~isMySQLConfig(iit)
                     \/ DsnKey \notin DOMAIN iit.Properties
                     \/ ma.err # ErrNil
                  THEN {Saved(Outcome(w1, ErrNil, {}, {}, {}, {}, {}),
                              wrote)}
                  ELSE IF Len(w1.chans) >= MaxChans THEN {}
                  ELSE IF info.err # ErrNil
                  THEN {Saved(Outcome(w2, ErrNil, {}, {info.conn}, {}, ma.c,
                                      {}), wrote)}
                  ELSE {Saved(Outcome(
                                 [w2 EXCEPT !.it =
                                              StoreShared(@, info.rec)],
                                 ErrNil, {}, {info.conn},
                                 {pushInstanceInfo(link, info.rec,
                                                   TRUE).put},
                                 ma.c, {}), wrote)}
               : g \in get(a.it, a.files, link, rec.UUID, 0, 0, <<>>) }
        : writeOk \in BOOLEAN }

\* Handle, case "Remove": over the outcomes of Repo.Get and of os.Remove; a
\* failed Get leaves iit nil, and iit.UUID panics
HandleRemove(w, rec, link, srv) ==
    UNION {
        LET w1 == [w EXCEPT !.it = g.it, !.files = g.files]
        IN IF g.err # ErrNil
           THEN {Crash(w1)}
           ELSE LET iit == The(g.ret, NoRec)
                    unreg == isMySQLConfig(iit)
                                /\ DnsKey \in DOMAIN iit.Properties
                    dns == IF unreg THEN iit.Properties[DnsKey] ELSE ""
                    c == ChanOf(w1.mrmChans, dns)
                    w2 == IF unreg THEN MrmRemove(w1, dns, c) ELSE w1
                IN {LET r == Remove(w2.it, w2.files, iit.UUID, rmOk)
                    IN Outcome([w2 EXCEPT !.it = r.it, !.files = r.files],
                               r.err, {}, {}, {}, {},
                               IF unreg THEN {<<dns, c>>} ELSE {})
                    : rmOk \in IF removeName(iit.UUID) \in DOMAIN w2.files
                               THEN BOOLEAN ELSE {FALSE}}
        : g \in get(w.it, w.files, link, rec.UUID, 0, 0, <<>>) }

\* handleGetInfo that probes whatever the type of the record
handleGetInfoAnyType(w, rec, srv) ==
    LET info == GetMySQLInfo(rec, srv)
    IN {Outcome(w, info.err, {info.rec}, {info.conn}, {}, {}, {})}

\* Manager.handleGetInfo, and the reply Handle sends: cmd.Reply(it, err)
handleGetInfo(w, rec, srv) ==
    IF ~isMySQLConfig(rec)
    THEN {Outcome(w, "NotMySQL", {rec}, {}, {}, {}, {})}
    ELSE LET info == GetMySQLInfo(rec, srv)
         IN {Outcome(w, info.err, {info.rec}, {info.conn}, {}, {}, {})}

\* the command names callers send
Cmds == {"Add", "Remove", "GetInfo", "Restart"}

\* Manager.Handle(cmd): every outcome it can have; the payload is decoded
\* before the command name is looked at, and a null payload leaves it nil
Handle(w, cmd, data, link, srv) ==
    IF ~Decodable(data)
    THEN {Outcome(w, "Unmarshal", {}, {}, {}, {}, {})}
    ELSE IF IsNull(data) /\ cmd \in {"Add", "Remove", "GetInfo"}
    THEN {Crash(w)}
    ELSE CASE cmd = "Add" -> HandleAdd(w, Unmarshal(data), link, srv)
           [] cmd = "Remove" -> HandleRemove(w, Unmarshal(data), link, srv)
           [] cmd = "GetInfo" -> handleGetInfo(w, Unmarshal(data), srv)
           [] OTHER -> {[Outcome(w, "UnknownCmd", {}, {}, {}, {}, {})
                           EXCEPT !.name = cmd]}

----------------------------------------------------------------------------
(* Manager: Start, Handle and the resync task *)

\* the orders in which a range over the set S can run
Orders(S) ==
    {s \in [1..Cardinality(S) -> S] :
        \A i, j \in 1..Cardinality(S) : s[i] = s[j] => i = j}

\* onlyMySQLInsts(Repo.List())
GetMySQLInstances(m) == {r \in List(m) : isMySQLConfig(r)}

\* the loop of Start over the instances seq[k..]; o is the outcome so far
RECURSIVE startLoop(_, _, _, _, _)
startLoop(seq, k, o, link, srv) ==
    IF k > Len(seq) THEN {o}
    ELSE LET instance == seq[k]
             dsn == DsnOf(instance)
             ma == MrmAdd(o.w, dsn, srv)
             info == GetMySQLInfo(instance, srv)
             o1 == [o EXCEPT !.w = ma.w, !.added = @ \cup ma.c,
                             !.conns = @ \cup {info.conn}]
             c == The(ma.c, 0)
         IN IF ma.err # ErrNil
            THEN startLoop(seq, k + 1, o, link, srv)
            ELSE IF Len(o.w.chans) >= MaxChans THEN {}
            ELSE IF info.err # ErrNil
            THEN startLoop(seq, k + 1, o1, link, srv)
            ELSE startLoop(seq, k + 1,
                           [o1 EXCEPT
                              !.w.it = StoreShared(@, info.rec),
                              !.w.mrmChans = Record(@, dsn, c),
                              !.puts = @ \cup
                                 {pushInstanceInfo(link, info.rec,
                                                   TRUE).put}],
                           link, srv)

\* Start that gives up when an instance cannot be registered or probed
ManagerStartAborts(w, link, srv) ==
    LET l == loadInstances(w.it, w.files)
        w1 == [w EXCEPT !.it = l.it]
    IN IF l.err # ErrNil
       THEN {Outcome(w1, l.err, {}, {}, {}, {}, {})}
       ELSE {Outcome(w1, "GlobalSubscribe", {}, {}, {}, {}, {})}
            \cup UNION {
               {IF Cardinality(o.puts) < Len(seq)
                THEN [o EXCEPT !.err = "instance"] ELSE o
                : o \in startLoop(seq, 1,
                                  Outcome(w1, ErrNil, {}, {}, {}, {}, {}),
                                  link, srv)}
               : seq \in Orders(GetMySQLInstances(l.it))}

\* Manager.Start: every outcome it can have, over the outcome of
\* GlobalSubscribe and the order of the range over the instances
ManagerStart(w, link, srv) ==
    LET l == loadInstances(w.it, w.files)
        w1 == [w EXCEPT !.it = l.it]
    IN IF l.err # ErrNil
       THEN {Outcome(w1, l.err, {}, {}, {}, {}, {})}
       ELSE {Outcome(w1, "GlobalSubscribe", {}, {}, {}, {}, {})}
            \cup UNION {startLoop(seq, 1,
                                  Outcome(w1, ErrNil, {}, {}, {}, {}, {}),
                                  link, srv)
                        : seq \in Orders(GetMySQLInstances(l.it))}

\* the body of the resync loop for the key dsn: the range stops at the first
\* instance of that dsn, whatever its probe and its push give
resyncKey(w, dsn, link, srv) ==
    LET match == {r \in GetMySQLInstances(w.it) : DsnOf(r) = dsn}
    IN IF match = {}
       THEN {Outcome(w, ErrNil, {}, {}, {}, {}, {})}
       ELSE {LET info == GetMySQLInfo(instance, srv)
             IN IF info.err # ErrNil
                THEN Outcome(w, ErrNil, {}, {info.conn}, {}, {}, {})
                ELSE Outcome([w EXCEPT !.it = StoreShared(@, info.rec)],
                             ErrNil, {info.rec}, {info.conn},
                             {pushInstanceInfo(link, info.rec, TRUE).put},
                             {}, {})
             : instance \in match}

\* the records callers send: a MySQL instance under every id, a MySQL instance
\* without dsn, an OS instance with a malformed UUID
NoDsnRec(id) ==
    [UUID |-> id, Type |-> "MySQL", Prefix |-> "mysql",
     Properties |-> NoProps]

MgrRecords ==
    {MySQLRec(id, d) : id \in Ids, d \in Dsns}
    \cup {NoDsnRec(IdOf(1)), OSRec(NonHexId)}

\* cmd.Data: the JSON of a record, null, or bytes that are not JSON
MgrPayloads == {Marshal(r) : r \in MgrRecords} \cup {NullBody, GarbageBody}

ThisWorld == World(it, files, mysqlInstances, chans, held, mrmChans)

\* the world after the call
Becomes(w) ==
    /\ it' = w.it
    /\ files' = w.files
    /\ mysqlInstances' = w.mysqlInstances
    /\ chans' = w.chans
    /\ held' = w.held
    /\ mrmChans' = w.mrmChans

MgrDone(o, op, arg, payload) ==
    [MgrRec(op, arg, payload, o.err, o.data, o.conns, o.puts, o.added,
            o.removed) EXCEPT !.name = o.name, !.saved = o.saved]

\* Manager.Start(); the task it launches subscribes to the global feed and
\* waits for a key
Mgr_Start ==
    /\ ~crashed
    /\ resync = "none"
    /\ \E o \in ManagerStart(ThisWorld, apiLink, server) :
          /\ Becomes(o.w)
          /\ crashed' = (o.err = "panic")
          /\ resync' = IF o.err = ErrNil THEN "Idle" ELSE "none"
          /\ mgrOp' = MgrDone(o, "Start", "", <<>>)
    /\ UNCHANGED <<apiLink, lastOp, scan, stacks,
                   server, monOp, stop, tasks, feed>>

\* Manager.Handle(cmd)
Mgr_Handle ==
    /\ ~crashed
    /\ \E cmd \in Cmds, data \in MgrPayloads :
       \E o \in Handle(ThisWorld, cmd, data, apiLink, server) :
          /\ Becomes(o.w)
          /\ crashed' = (o.err = "panic")
          /\ mgrOp' = MgrDone(o, "Handle", cmd, data)
    /\ UNCHANGED <<apiLink, lastOp, scan, stacks,
                   server, monOp, stop, tasks, feed,
                   resync>>

\* the resync task takes a key off the global feed and resyncs
Resync_Step ==
    /\ ~crashed
    /\ resync = "Idle"
    /\ \E dsn \in feed :
          /\ feed' = feed \ {dsn}
          /\ \E o \in resyncKey(ThisWorld, dsn, apiLink, server) :
                /\ Becomes(o.w)
                /\ mgrOp' = MgrDone(o, "Resync", dsn, <<>>)
    /\ UNCHANGED <<apiLink, crashed, lastOp, scan, stacks,
                   server, monOp, stop, tasks,
                   resync>>

\* the monitor reports the restart of a watched target on the global feed,
\* whether or not the resync task is still there to take it
Global_Notify ==
    /\ ~crashed
    /\ resync \in {"Idle", "Crashed"}
    /\ \E d \in DOMAIN mysqlInstances \ feed :
          /\ feed' = feed \cup {d}
          /\ mgrOp' = MgrRec("Notify", d, <<>>, ErrNil, {}, {}, {}, {}, {})
    /\ UNCHANGED <<it, files, apiLink, crashed, lastOp, scan, stacks,
                   mysqlInstances,
                   chans, server, held, monOp, stop, tasks, mrmChans,
                   resync>>

\* a MySQL server of the records stops answering, or answers again
Mgr_Server ==
    /\ ~crashed
    /\ \E d \in Dsns :
          server' = [server EXCEPT ![d].up = ~@]
    /\ mgrOp' = MgrRec("Server", "", <<>>, ErrNil, {}, {}, {}, {}, {})
    /\ UNCHANGED <<it, files, apiLink, crashed, lastOp, scan, stacks,
                   mysqlInstances,
                   chans, held, monOp, stop, tasks, mrmChans, feed, resync>>

\* the directory at start: the file of the first id, holding its record
StartDir ==
    [n \in {configName(IdOf(1))} |-> Marshal(MySQLRec(IdOf(1), "D1"))]

\* a new Manager; no link to the instances of the remote API is configured
InitMgr ==
    /\ RepoNew
    /\ files = StartDir
    /\ apiLink = ""

NextMgr ==
    \/ Mgr_Start
    \/ Mgr_Handle
    \/ Resync_Step
    \/ Global_Notify
    \/ Mgr_Server

\* the Manager with its callers, its resync task, the monitor's global feed
\* and the servers
SpecMgr == InitMgr /\ [][NextMgr]_vars

\* the keys GetMySQLInfo has set when the column of its k-th assignment came
\* back NULL: it.Properties["hostname"] = *hostname, then distro, then version
SetBeforeNil(k) ==
    CASE k = 1 -> {} [] k = 2 -> {"hostname"} [] k = 3 -> {"hostname", "distro"}

\* the body of the resync loop for the key dsn when the probe of the
\* matching instance panics on a nil column: the assignments made before it
\* stay in the Properties the stored record shares
resyncPanics(w, dsn, srv) ==
    {LET rec == [instance EXCEPT !.Properties =
                    [key \in DOMAIN @ \cup SetBeforeNil(k) |->
                        IF key \in SetBeforeNil(k) THEN ProbeProps[key]
                        ELSE @[key]]]
     IN Outcome([w EXCEPT !.it = StoreShared(@, rec)], "panic", {},
                {DsnOf(instance)}, {}, {}, {})
     : instance \in {r \in GetMySQLInstances(w.it) :
                        DsnOf(r) = dsn /\ dsn \in DOMAIN srv /\ srv[dsn].up},
       k \in 1..3}

\* a deferred function that puts the task back to waiting after a panic
recoveredResumes(panicked) == "Idle"

\* the deferred function of monitorInstancesRestart: recover() and the status
\* of instance-mrms the task leaves when it returns
recovered(panicked) == IF panicked THEN "Crashed" ELSE "Stopped"

\* the resync task takes a key off the global feed and its probe panics:
\* the deferred function recovers, sets the status and the task returns
Resync_Crash ==
    /\ ~crashed
    /\ resync = "Idle"
    /\ \E dsn \in feed :
          /\ feed' = feed \ {dsn}
          /\ \E o \in resyncPanics(ThisWorld, dsn, server) :
                /\ Becomes(o.w)
                /\ resync' = recovered(o.err = "panic")
                /\ mgrOp' = MgrDone(o, "Resync", dsn, <<>>)
    /\ UNCHANGED <<apiLink, crashed, lastOp, scan, stacks,
                   server, monOp, stop, tasks>>

NextCrash ==
    \/ NextMgr
    \/ Resync_Crash

\* the Manager as in SpecMgr, with probes of the resync task that panic
SpecCrash == InitMgr /\ [][NextCrash]_vars

----------------------------------------------------------------------------
(* The two locks: which calls are made while Repo.mux or the Monitor's
   RWMutex is held *)

\* the lock a function takes on entry and releases when it returns:
\* r.mux.Lock() in the Repo, m.Lock() and m.RLock() in the Monitor
Takes(f) ==
    CASE f \in {"Repo.Add", "Repo.Get", "Repo.Remove", "Repo.List"} -> "repo"
      [] f \in {"Monitor.Add", "Monitor.Remove", "Monitor.Check",
                "Monitor.GlobalSubscribe"} -> "mon"
      [] OTHER -> "none"

\* the calls in the body of each function, in the order of the source; a
\* function that is not listed calls nothing that matters here
Calls ==
    [f \in {"Manager.Start", "Handle(Add)", "Handle(Remove)",
             "Handle(GetInfo)", "Manager.monitorInstancesRestart",
             "Manager.GetMySQLInstances", "Manager.handleGetInfo",
             "Repo.Init", "Repo.loadInstances", "Repo.Add", "Repo.add",
             "Repo.Get", "Repo.get", "Repo.Remove", "Monitor.Start.func1",
             "Monitor.Add", "Monitor.Remove", "Monitor.Check",
             "Monitor.createMysqlInstance"} |->
        CASE f = "Manager.Start" ->
               <<"Repo.Init", "Monitor.GlobalSubscribe",
                 "Manager.GetMySQLInstances", "Monitor.Add", "GetMySQLInfo",
                 "Manager.pushInstanceInfo">>
          [] f = "Handle(Add)" ->
               <<"Repo.Add", "Repo.Get", "Monitor.Add", "GetMySQLInfo",
                 "Manager.pushInstanceInfo">>
          [] f = "Handle(Remove)" ->
               <<"Repo.Get", "Monitor.Remove", "Repo.Remove">>
          [] f = "Handle(GetInfo)" -> <<"Manager.handleGetInfo">>
          [] f = "Manager.handleGetInfo" -> <<"GetMySQLInfo">>
          [] f = "Manager.monitorInstancesRestart" ->
               <<"Monitor.GlobalSubscribe", "Manager.GetMySQLInstances",
                 "GetMySQLInfo", "Manager.pushInstanceInfo">>
          [] f = "Manager.GetMySQLInstances" -> <<"Repo.List">>
          [] f = "Repo.Init" -> <<"Repo.loadInstances">>
          [] f = "Repo.loadInstances" -> <<"Repo.Add">>
          [] f = "Repo.Add" -> <<"Repo.add">>
          [] f = "Repo.add" -> <<"WriteConfig">>
          [] f = "Repo.Get" -> <<"Repo.get">>
          [] f = "Repo.get" -> <<"api.Get", "Repo.add", "Repo.get">>
          [] f = "Repo.Remove" -> <<"os.Remove">>
          [] f = "Monitor.Start.func1" -> <<"Monitor.Check">>
          [] f = "Monitor.Add" ->
               <<"Monitor.createMysqlInstance", "Subscribers.Add">>
          [] f = "Monitor.createMysqlInstance" -> <<"NewMysqlInstance">>
          [] f = "Monitor.Remove" ->
               <<"Subscribers.Remove", "Subscribers.Empty">>
          [] f = "Monitor.Check" ->
               <<"CheckIfMysqlRestarted", "Subscribers.Notify">>]

\* a Repo.add that registers the instance with the monitor
BodyAddRegisters(f) ==
    IF f = "Repo.add" THEN <<"WriteConfig", "Monitor.Add">>
    ELSE IF f \in DOMAIN Calls THEN Calls[f] ELSE <<>>

\* the calls in the body of f
Body(f) == IF f \in DOMAIN Calls THEN Calls[f] ELSE <<>>

\* what each context runs: the caller's Start and Handle, the goroutine of
\* Monitor.Start, the goroutine of Manager.Start
Entries(c) ==
    CASE c = "caller" -> {"Manager.Start", "Handle(Add)", "Handle(Remove)",
                          "Handle(GetInfo)"}
      [] c = "poll" -> {"Monitor.Start.func1"}
      [] c = "resync" -> {"Manager.monitorInstancesRestart"}

\* the deepest call stack of the model: it bounds the recursion of Repo.get
MaxDepth == 6

Frame(f, i) == [f |-> f, at |-> i]

\* the locks the context c holds: those of the functions it is in
HeldBy(st, c) ==
    {Takes(st[c][k].f) : k \in DOMAIN st[c]} \ {"none"}

\* the next call of the function on top of the stack of c, if any
NextCall(st, c) ==
    IF st[c] # <<>> /\ st[c][Len(st[c])].at < Len(Body(st[c][Len(st[c])].f))
    THEN {Body(st[c][Len(st[c])].f)[st[c][Len(st[c])].at + 1]}
    ELSE {}

\* the top frame of the stack s moved past its next call
Advance(s) == [s EXCEPT ![Len(s)].at = @ + 1]

\* a context starts one of its entry functions
Ctx_Enter ==
    /\ \E c \in Contexts :
          /\ stacks[c] = <<>>
          /\ \E f \in Entries(c) :
                stacks' = [stacks EXCEPT ![c] = <<Frame(f, 0)>>]
    /\ UNCHANGED <<it, files, apiLink, crashed, lastOp, scan>>
    /\ UNCHANGED monVars
    /\ UNCHANGED mgrVars

\* the function on top makes its next call; a call that takes a lock waits
\* until no context holds it (a sync.Mutex is not re-entrant)
Ctx_Call ==
    /\ \E c \in Contexts :
          \E g \in NextCall(stacks, c) :
             /\ Len(stacks[c]) < MaxDepth
             /\ Takes(g) # "none"
                   => \A d \in Contexts : Takes(g) \notin HeldBy(stacks, d)
             /\ stacks' = [stacks EXCEPT
                              ![c] = Append(Advance(@), Frame(g, 0))]
    /\ UNCHANGED <<it, files, apiLink, crashed, lastOp, scan>>
    /\ UNCHANGED monVars
    /\ UNCHANGED mgrVars

\* the function on top passes its next call by: the branch is not taken
Ctx_Skip ==
    /\ \E c \in Contexts :
          /\ NextCall(stacks, c) # {}
          /\ stacks' = [stacks EXCEPT ![c] = Advance(@)]
    /\ UNCHANGED <<it, files, apiLink, crashed, lastOp, scan>>
    /\ UNCHANGED monVars
    /\ UNCHANGED mgrVars

\* the function on top returns; its deferred Unlock gives its lock back
Ctx_Return ==
    /\ \E c \in Contexts :
          /\ stacks[c] # <<>>
          /\ NextCall(stacks, c) = {}
          /\ stacks' = [stacks EXCEPT ![c] = SubSeq(@, 1, Len(@) - 1)]
    /\ UNCHANGED <<it, files, apiLink, crashed, lastOp, scan>>
    /\ UNCHANGED monVars
    /\ UNCHANGED mgrVars

NextCalls ==
    \/ Ctx_Enter
    \/ Ctx_Call
    \/ Ctx_Skip
    \/ Ctx_Return

\* the three contexts running their calls side by side
SpecCalls == InitMon /\ [][NextCalls]_vars

\* what the file named after id can hold when the Manager starts: a MySQL
\* instance of either server, or bytes that are not JSON
MgrStartBodies(id) ==
    {Marshal(MySQLRec(id, d)) : d \in Targets} \cup {GarbageBody}

\* any of the servers stops answering, or answers again
Any_Server ==
    /\ ~crashed
    /\ \E d \in Targets :
          server' = [server EXCEPT ![d].up = ~@]
    /\ mgrOp' = MgrRec("Server", "", <<>>, ErrNil, {}, {}, {}, {}, {})
    /\ UNCHANGED <<it, files, apiLink, crashed, lastOp, scan, stacks,
                   mysqlInstances,
                   chans, held, monOp, stop, tasks, mrmChans, feed, resync>>

\* a new Manager over any directory of such files
InitStart ==
    /\ RepoNew
    /\ files \in IdDirs([id \in Ids |-> MgrStartBodies(id)])
    /\ apiLink = ""

NextStart ==
    \/ Mgr_Start
    \/ Resync_Step
    \/ Global_Notify
    \/ Any_Server

\* the Manager started over the instances it finds, its resync task, the
\* monitor's global feed and the servers
SpecStart == InitStart /\ [][NextStart]_vars

----------------------------------------------------------------------------
(* Claims about the instance repository *)

\* the backing file of id: instance-<id>
BackingFile(id) == InstancePrefix \o id

HasFile(fs, id) == BackingFile(id) \in DOMAIN fs

\* the record the answer of the remote API carries
Payload(resp) == Unmarshal(resp.data)

IsRecordAnswer(resp) == resp.kind = "code200" /\ WellFormedBody(resp.data)

\* C1: Add of a record whose UUID is already in the map fails with
\* DuplicateInstance, with persist true as with persist false, and changes
\* neither the map nor the files.
C1_AddDuplicate ==
    [][(lastOp'.op = "Add" /\ lastOp'.id \in DOMAIN it)
         => /\ lastOp'.err = "DuplicateInstance"
            /\ it' = it
            /\ files' = files]_vars

\* a duplicate Add with persist=true of a record that differs from the stored
\* one, whose backing file exists
C1_Witness ==
    /\ lastOp.op = "Add" /\ lastOp.persist
    /\ lastOp.err = "DuplicateInstance"
    /\ lastOp.id \in DOMAIN it /\ it[lastOp.id] # lastOp.arg
    /\ HasFile(files, lastOp.id)

AddedPersisted(o) ==
    o.op = "Add" /\ o.persist /\ o.err = ErrNil /\ valid(o.id)

\* C2 as stated: after a successful Add(r, persist=true) of a valid record the
\* file exists and decodes to r, a following Get(r.UUID) returns r, and after
\* a following Remove(r.UUID) the file no longer exists.
C2_Original ==
    [][/\ AddedPersisted(lastOp')
          => /\ HasFile(files', lastOp'.id)
             /\ Unmarshal(files'[BackingFile(lastOp'.id)]) = lastOp'.arg
       /\ (AddedPersisted(lastOp) /\ lastOp'.op = "Get"
             /\ lastOp'.id = lastOp.id)
          => lastOp'.err = ErrNil /\ lastOp'.ret = {lastOp.arg}
       /\ (AddedPersisted(lastOp) /\ lastOp'.op = "Remove"
             /\ lastOp'.id = lastOp.id)
          => ~HasFile(files', lastOp.id)]_vars

\* C2, amended: ... and after a following Remove(r.UUID) that returns no
\* error the file no longer exists; a Remove whose file deletion fails
\* returns the error and leaves the file and the map entry.
C2_RoundTrip ==
    [][/\ AddedPersisted(lastOp')
          => /\ HasFile(files', lastOp'.id)
             /\ Unmarshal(files'[BackingFile(lastOp'.id)]) = lastOp'.arg
             /\ it'[lastOp'.id] = lastOp'.arg
       /\ (AddedPersisted(lastOp) /\ lastOp'.op = "Get"
             /\ lastOp'.id = lastOp.id)
          => lastOp'.err = ErrNil /\ lastOp'.ret = {lastOp.arg}
       /\ (AddedPersisted(lastOp) /\ lastOp'.op = "Remove"
             /\ lastOp'.id = lastOp.id)
          => IF lastOp'.err = ErrNil
             THEN ~HasFile(files', lastOp.id) /\ lastOp.id \notin DOMAIN it'
             ELSE /\ lastOp'.err = "osRemove"
                  /\ files' = files /\ it' = it]_vars

\* the state after a successful Add(r, persist=true) of a MySQL record with a
\* dsn: the file of r.UUID is there and decodes to r
C2_Witness ==
    /\ AddedPersisted(lastOp)
    /\ isMySQLConfig(lastOp.arg) /\ DsnKey \in DOMAIN lastOp.arg.Properties
    /\ HasFile(files, lastOp.id)
    /\ Unmarshal(files[BackingFile(lastOp.id)]) = lastOp.arg

\* C3: Get and Remove of an id that is not 32 hexadecimal characters fail with
\* InvalidInstance, make no file system call and no remote request, and leave
\* the map (and the files) as they were.
C3_InvalidId ==
    [][(lastOp'.op \in {"Get", "Remove"} /\ lastOp'.id \in BadIds)
         => /\ lastOp'.err = "InvalidInstance"
            /\ lastOp'.io = 0 /\ lastOp'.net = 0
            /\ it' = it /\ files' = files]_vars

\* Get of a malformed id while the remote link is configured and the map
\* is not empty
C3_Witness ==
    /\ lastOp.op = "Get" /\ lastOp.id \in BadIds
    /\ lastOp.err = "InvalidInstance"
    /\ apiLink # "" /\ DOMAIN it # {}

\* Get(id) of a well-formed id that is not in the map, with the link
\* configured, whose (first) remote GET answers 200 with the JSON of a record
FetchCase(o, m, link) ==
    /\ o.op = "Get" /\ valid(o.id) /\ o.id \notin DOMAIN m
    /\ link # ""
    /\ Len(o.resps) >= 1 /\ IsRecordAnswer(o.resps[1])

\* C4 as stated: such a Get succeeds, leaves a backing file and a map entry
\* for id, and returns a record equal to the remote payload.
C4_Original ==
    [][FetchCase(lastOp', it, apiLink)
         => /\ lastOp'.err = ErrNil
            /\ HasFile(files', lastOp'.id)
            /\ lastOp'.id \in DOMAIN it'
            /\ lastOp'.ret = {Payload(lastOp'.resps[1])}]_vars

\* C4, amended: when the payload carries the UUID id and the write of the
\* backing file succeeds, Get succeeds after one remote request, leaves the
\* file and the map entry of id, both equal to the payload, and returns the
\* payload; when the write fails, or the payload carries a UUID that is in
\* the map, Get fails after one request and leaves map and files as they
\* were; a payload with another UUID that is not in the map is saved under
\* its own UUID and Get asks the remote API again.
C4_FetchAndCache ==
    [][FetchCase(lastOp', it, apiLink)
         => LET o == lastOp'
                a == o.resps[1]
                p == Payload(a)
            IN /\ (p.UUID = o.id /\ a.writeOk)
                  => /\ o.err = ErrNil /\ o.net = 1 /\ o.ret = {p}
                     /\ HasFile(files', o.id)
                     /\ Unmarshal(files'[BackingFile(o.id)]) = p
                     /\ o.id \in DOMAIN it' /\ it'[o.id] = p
               /\ (p.UUID \in DOMAIN it \/ ~a.writeOk)
                  => /\ o.err = "AddFailed" /\ o.net = 1
                     /\ it' = it /\ files' = files
               /\ (p.UUID # o.id /\ p.UUID \notin DOMAIN it /\ a.writeOk)
                  => /\ o.net >= 2
                     /\ p.UUID \in DOMAIN it' /\ it'[p.UUID] = p
                     /\ HasFile(files', p.UUID)]_vars

\* a Get that fetched the record of its id and saved it
C4_Witness ==
    /\ lastOp.op = "Get" /\ lastOp.err = ErrNil /\ lastOp.net = 1
    /\ IsRecordAnswer(lastOp.resps[1])
    /\ lastOp.ret = {Payload(lastOp.resps[1])}
    /\ HasFile(files, lastOp.id) /\ lastOp.id \in DOMAIN it

\* C5: once Get(id) has succeeded the record is in the map; only a successful
\* Remove(id) takes an id out of the map; and Get of a well-formed id that is
\* in the map returns the stored record with no remote request.
C5_GetCached ==
    [][/\ (lastOp'.op = "Get" /\ lastOp'.err = ErrNil)
          => /\ valid(lastOp'.id)
             /\ lastOp'.id \in DOMAIN it'
             /\ lastOp'.ret = {it'[lastOp'.id]}
       /\ \A id \in DOMAIN it \ DOMAIN it' :
             lastOp'.op = "Remove" /\ lastOp'.id = id /\ lastOp'.err = ErrNil
       /\ (lastOp'.op = "Get" /\ valid(lastOp'.id)
             /\ lastOp'.id \in DOMAIN it)
          => /\ lastOp'.err = ErrNil /\ lastOp'.net = 0
             /\ lastOp'.ret = {it[lastOp'.id]}]_vars

\* a Get without remote request, with the link configured, of an id whose
\* record is in the map and in its backing file
C5_Witness ==
    /\ lastOp.op = "Get" /\ lastOp.err = ErrNil /\ lastOp.net = 0
    /\ apiLink # ""
    /\ lastOp.id \in DOMAIN it /\ lastOp.ret = {it[lastOp.id]}
    /\ HasFile(files, lastOp.id)
    /\ Unmarshal(files[BackingFile(lastOp.id)]) = it[lastOp.id]

\* the ids of the map that have no backing file
Unbacked(m, fs) == {id \in DOMAIN m : ~HasFile(fs, id)}

\* C6 as stated, the part that the map holds no more than the files: a
\* record that is in the map but has no backing file never occurs.
C6_Original == Unbacked(it, files) = {}

\* C6, amended: a record without backing file comes into the map only by an
\* insert with persist=false: Add(r, persist=false), or Init loading a file
\* whose name carries another id than the record in it. Every other call
\* keeps the two in step: a successful Add(r, persist=true) or fetching Get
\* leaves both the entry and the file, a successful Remove leaves neither,
\* and no call deletes the file of an id that stays in the map.
C6_MapAndFiles ==
    [][/\ \A id \in Unbacked(it', files') \ Unbacked(it, files) :
             \/ lastOp'.op = "Add" /\ ~lastOp'.persist /\ lastOp'.id = id
                  /\ lastOp'.err = ErrNil
             \/ /\ lastOp'.op = "Init"
                /\ \E n \in DOMAIN files :
                      /\ n # BackingFile(id)
                      /\ WellFormedBody(files[n])
                      /\ Unmarshal(files[n]).UUID = id
       /\ (lastOp'.op = "Add" /\ lastOp'.persist /\ lastOp'.err = ErrNil)
          => lastOp'.id \in DOMAIN it' /\ HasFile(files', lastOp'.id)
       /\ (lastOp'.op = "Get" /\ lastOp'.err = ErrNil /\ lastOp'.net > 0)
          => lastOp'.id \in DOMAIN it' /\ HasFile(files', lastOp'.id)
       /\ (lastOp'.op = "Remove" /\ lastOp'.err = ErrNil)
          => lastOp'.id \notin DOMAIN it' /\ ~HasFile(files', lastOp'.id)
       /\ (lastOp'.op \in {"Add", "Remove"} /\ lastOp'.err # ErrNil)
          => it' = it /\ files' = files]_vars

\* a record put in the map with persist=false and no backing file, next to
\* a record that has its file
C6_Witness ==
    /\ lastOp.op = "Add" /\ ~lastOp.persist /\ lastOp.err = ErrNil
    /\ lastOp.id \in Unbacked(it, files)
    /\ \E id \in DOMAIN it : HasFile(files, id)

----------------------------------------------------------------------------
(* Claims about Init *)

\* the k-th file of the scan has a name of two parts whose second is an id
GoodName(list, k) ==
    /\ Len(Split(list[k], Dash)) = 2
    /\ valid(Split(list[k], Dash)[2])

\* ... and a readable body that decodes to a record
GoodFile(fs, list, k) == GoodName(list, k) /\ WellFormedBody(fs[list[k]])

FileUUID(fs, list, k) == Unmarshal(fs[list[k]]).UUID

\* a directory whose files are all well-formed, with pairwise distinct UUIDs
WellFormedDir(fs) ==
    LET list == Glob(DOMAIN fs)
    IN /\ \A k \in 1..Len(list) : GoodFile(fs, list, k)
       /\ \A j, k \in 1..Len(list) :
             j # k => FileUUID(fs, list, j) # FileUUID(fs, list, k)

\* C7: Init of a new Repo on a directory whose files are all well-formed and
\* carry pairwise distinct UUIDs succeeds, and List then gives one record per
\* file: the records of the files.
C7_InitLoadsAll ==
    [][(lastOp'.op = "Init" /\ DOMAIN it = {} /\ WellFormedDir(files))
         => /\ lastOp'.err = ErrNil
            /\ List(it') = {Unmarshal(files[n]) : n \in DOMAIN files}
            /\ {r.UUID : r \in List(it')}
                 = {Unmarshal(files[n]).UUID : n \in DOMAIN files}
            /\ Cardinality(List(it')) = Cardinality(DOMAIN files)]_vars

\* a successful Init that loaded one record per id, one of them from a file
\* named after another id
C7_Witness ==
    /\ lastOp.op = "Init" /\ lastOp.err = ErrNil
    /\ Cardinality(DOMAIN files) = NumIds
    /\ DOMAIN it = Ids
    /\ \E n \in DOMAIN files : Unmarshal(files[n]).UUID # Split(n, Dash)[2]

\* the k-th file makes Init fail: a bad name, an unreadable or undecodable
\* body, or a UUID that is in the map m or in an earlier file
BadFile(m, fs, list, k) ==
    \/ ~GoodName(list, k)
    \/ fs[list[k]] = Unreadable
    \/ ~Decodable(fs[list[k]])
    \/ /\ WellFormedBody(fs[list[k]])
       /\ \/ FileUUID(fs, list, k) \in DOMAIN m
          \/ \E j \in 1..(k - 1) :
                /\ WellFormedBody(fs[list[j]])
                /\ FileUUID(fs, list, j) = FileUUID(fs, list, k)

\* the k-th file stops the scan: it is bad, or its body is null
StopsScan(m, fs, list, k) ==
    BadFile(m, fs, list, k) \/ (GoodName(list, k) /\ IsNull(fs[list[k]]))

\* C8: Init returns an error at the first file that has a malformed name, an
\* invalid id, an unreadable or undecodable body or a UUID already loaded;
\* it has loaded the files before that one and reads none after it.
C8_InitFailsFast ==
    [][lastOp'.op = "Init"
         => LET list == Glob(DOMAIN files)
                stops == {k \in 1..Len(list) : StopsScan(it, files, list, k)}
            IN \A k \in stops :
                  ((\A j \in stops : k <= j) /\ BadFile(it, files, list, k))
                  => /\ lastOp'.err \notin {ErrNil, "panic"}
                     /\ lastOp'.at = k
                     /\ lastOp'.io <= k
                     /\ DOMAIN it' = DOMAIN it \cup
                          {FileUUID(files, list, j) : j \in 1..(k - 1)}]_vars

\* an Init that stopped at its second file because that file repeats the UUID
\* of the first, under another valid name
C8_Witness ==
    /\ lastOp.op = "Init" /\ lastOp.err = "AddFailed" /\ lastOp.at = 2
    /\ Cardinality(DOMAIN it) = 1
    /\ Cardinality(DOMAIN files) >= 2

----------------------------------------------------------------------------
(* Claims about the RestartMonitor *)

\* the targets callers hold a subscription to
HeldTargets == {held[c] : c \in DOMAIN held}

\* the channels callers hold for the target d
HeldChans(d) == {c \in DOMAIN held : held[c] = d}

\* C9: a target is in the watch set exactly when a caller holds a channel for
\* it (a channel that Add returned and that Remove has not taken away); the
\* subscriber set of a watched target is the set of these channels and is
\* never empty; and a tick checks the watched targets and no other.
C9_WatchedIffSubscribed ==
    /\ DOMAIN mysqlInstances = HeldTargets
    /\ \A d \in DOMAIN mysqlInstances :
          /\ mysqlInstances[d].Subscribers = HeldChans(d)
          /\ mysqlInstances[d].Subscribers # {}
    /\ monOp.op = "Check" => monOp.checked = HeldTargets
    /\ (monOp.op = "Add" /\ monOp.err = ErrNil)
          => monOp.dsn \in DOMAIN mysqlInstances
    /\ (monOp.op = "Remove" /\ HeldChans(monOp.dsn) = {})
          => monOp.dsn \notin DOMAIN mysqlInstances

\* a tick that checks one target only, after Remove has taken away the last
\* channel of the other target
C9_Witness ==
    /\ monOp.op = "Check"
    /\ Cardinality(monOp.checked) = 1
    /\ \E c \in DOMAIN chans : c \notin DOMAIN held
    /\ DOMAIN mysqlInstances = monOp.checked

\* the fingerprint of the watched target d differs from its baseline
Changed(d) == server[d].up /\ server[d].fp # mysqlInstances[d].baseline

\* C10: a tick that finds the fingerprint of a watched target changed puts one
\* signal in every subscribed channel that has free buffer space, leaves the
\* full channels as they are, and takes the fingerprint as the new baseline;
\* a tick that finds it unchanged puts nothing in the channels of the target.
C10_NotifyOncePerChange ==
    [][monOp'.op = "Check"
         => \A d \in DOMAIN mysqlInstances :
               /\ d \in monOp'.checked
               /\ IF Changed(d)
                  THEN /\ d \in monOp'.restarted
                       /\ mysqlInstances'[d].baseline = server[d].fp
                       /\ ~Changed(d)'
                       /\ \A c \in mysqlInstances[d].Subscribers :
                             chans'[c] = IF chans[c] < ChanCap
                                         THEN chans[c] + 1
                                         ELSE chans[c]
                  ELSE /\ d \notin monOp'.restarted
                       /\ mysqlInstances'[d] = mysqlInstances[d]
                       /\ \A c \in mysqlInstances[d].Subscribers :
                             chans'[c] = chans[c]]_vars

\* a tick that found a restart of a target with two subscribers and put a
\* signal in the channel of each
C10_Witness ==
    /\ monOp.op = "Check"
    /\ \E d \in monOp.restarted :
          /\ d \in DOMAIN mysqlInstances
          /\ Cardinality(mysqlInstances[d].Subscribers) >= 2
          /\ \A c \in mysqlInstances[d].Subscribers : chans[c] = 1

\* C11: after Remove(target, c) has returned, c is in no subscriber set and no
\* signal is ever sent on it: the buffer of a channel that no caller holds
\* any more never grows, whatever the other channels of its target receive.
C11_NoSignalAfterRemove ==
    [][/\ \A c \in DOMAIN chans \ DOMAIN held : chans'[c] <= chans[c]
       /\ \A c \in DOMAIN chans' \ DOMAIN held' :
             \A d \in DOMAIN mysqlInstances' :
                c \notin mysqlInstances'[d].Subscribers]_vars

\* a tick that found a restart and put a signal in a held channel, while a
\* channel that Remove has taken away stays empty
C11_Witness ==
    /\ monOp.op = "Check"
    /\ \E d \in monOp.restarted :
          \E c \in HeldChans(d) : chans[c] = 1
    /\ \E c \in DOMAIN chans \ DOMAIN held : chans[c] = 0

\* C12: Stop can be called in every state (before Start, while polling tasks
\* run, after they have exited, right after another Stop), it returns
\* without waiting, and it returns nil.
C12_StopNeverBlocks ==
    /\ ENABLED Monitor_Stop
    /\ ~Stop(stop).blocked
    /\ Stop(stop).err = ErrNil
    /\ monOp.op = "Stop" => (monOp.err = ErrNil /\ stop = StopCap)

\* Stop has returned with the stop signal still pending, one polling task
\* having exited and another one running
C12_Witness ==
    /\ monOp.op = "Stop" /\ stop = StopCap
    /\ \E t \in DOMAIN tasks : tasks[t] = "done"
    /\ \E t \in DOMAIN tasks : tasks[t] = "loop"

----------------------------------------------------------------------------
(* Claims about the Manager *)

\* a and b are the same instance: same UUID, type, prefix and dsn
SameInstance(a, b) ==
    /\ a.UUID = b.UUID
    /\ a.Type = b.Type
    /\ a.Prefix = b.Prefix
    /\ (DsnKey \in DOMAIN a.Properties) = (DsnKey \in DOMAIN b.Properties)
    /\ DsnOf(a) = DsnOf(b)

\* the step is Handle of the command cmd with the JSON of a record
HandleOf(cmd) ==
    /\ mgrOp'.op = "Handle"
    /\ mgrOp'.arg = cmd
    /\ WellFormedBody(mgrOp'.payload)

SubsOf(mis, dsn) ==
    IF dsn \in DOMAIN mis THEN mis[dsn].Subscribers ELSE {}

\* C14: when Handle(Add) of a MySQL record with dsn D gets a channel from
\* mrm.Add(D), D is watched afterwards with one subscriber more than before,
\* the new one being that channel, and m.mrmChans[D] is that channel.
C14_AddRegisters ==
    [][(HandleOf("Add") /\ mgrOp'.added # {})
       => LET D == DsnOf(Unmarshal(mgrOp'.payload))
              c == The(mgrOp'.added, 0)
          IN /\ D \in DOMAIN mysqlInstances'
             /\ c \notin SubsOf(mysqlInstances, D)
             /\ SubsOf(mysqlInstances', D)
                   = SubsOf(mysqlInstances, D) \cup {c}
             /\ c \in DOMAIN held' /\ held'[c] = D
             /\ D \in DOMAIN mrmChans' /\ mrmChans'[D] = c]_vars

\* an Add that made the second subscription of its dsn
C14_Witness ==
    /\ mgrOp.op = "Handle" /\ mgrOp.arg = "Add" /\ mgrOp.added # {}
    /\ LET D == DsnOf(Unmarshal(mgrOp.payload))
       IN /\ Cardinality(SubsOf(mysqlInstances, D)) = 2
          /\ mrmChans[D] \in mgrOp.added

\* the id cannot be removed: it is malformed, or it is not in the map and no
\* link to the remote API is configured
NotRemovable(m, link, id) ==
    \/ ~valid(id)
    \/ id \notin DOMAIN m /\ link = ""

\* C16: Handle(Remove) of an id that cannot be removed replies with the
\* Repo's InvalidInstanceError or UnknownInstanceError, does not panic, and
\* leaves the map as it was.
C16_RemoveFails ==
    [][(/\ HandleOf("Remove")
        /\ NotRemovable(it, apiLink, Unmarshal(mgrOp'.payload).UUID))
       => /\ mgrOp'.err \in {"InvalidInstance", "UnknownInstance"}
          /\ ~crashed'
          /\ it' = it]_vars

\* the record of id is a MySQL instance whose dsn is watched, the channel
\* recorded for that dsn being one of its subscribers
Registered(m, mis, mc, id) ==
    /\ id \in DOMAIN m
    /\ isMySQLConfig(m[id])
    /\ DsnKey \in DOMAIN m[id].Properties
    /\ ChanOf(mc, DsnOf(m[id])) \in SubsOf(mis, DsnOf(m[id]))

\* C17: Handle(Remove) of a registered MySQL instance with dsn D gives D and
\* the channel recorded for D to mrm.Remove: afterwards that channel is no
\* subscriber of D, and D is not watched when it was the only one.
C17_RemoveUnregisters ==
    [][(/\ HandleOf("Remove")
        /\ Registered(it, mysqlInstances, mrmChans,
                      Unmarshal(mgrOp'.payload).UUID))
       => LET D == DsnOf(it[Unmarshal(mgrOp'.payload).UUID])
              c == ChanOf(mrmChans, D)
          IN /\ <<D, c>> \in mgrOp'.removed
             /\ c \notin SubsOf(mysqlInstances', D)
             /\ SubsOf(mysqlInstances, D) = {c}
                   => D \notin DOMAIN mysqlInstances']_vars

\* the registry, the backing files and the subscriptions
StoreAndSubs == <<it, files, mysqlInstances, chans, held, mrmChans>>

\* C18: Handle(GetInfo) with a record that is not a MySQL instance replies
\* with an error, probes nothing, does not panic, and changes neither the
\* map, nor the files, nor the subscriptions.
C18_GetInfoNotMySQL ==
    [][(/\ HandleOf("GetInfo")
        /\ ~isMySQLConfig(Unmarshal(mgrOp'.payload)))
       => /\ mgrOp'.err # ErrNil
          /\ mgrOp'.conns = {}
          /\ ~crashed'
          /\ UNCHANGED StoreAndSubs]_vars

\* a GetInfo for an OS instance, refused while instances are registered
C18_Witness ==
    /\ mgrOp.op = "Handle" /\ mgrOp.arg = "GetInfo"
    /\ mgrOp.err = "NotMySQL" /\ mgrOp.conns = {}
    /\ isOSConfig(Unmarshal(mgrOp.payload))
    /\ DOMAIN it # {} /\ DOMAIN mysqlInstances # {}

\* C19: a Handle(GetInfo) for a MySQL record that replies without error
\* replies with that record, its UUID and its dsn as they were sent and its
\* hostname, distro and version as the server gave them; the map and the
\* files are as before.
C19_GetInfoRefreshes ==
    [][(/\ HandleOf("GetInfo")
        /\ isMySQLConfig(Unmarshal(mgrOp'.payload))
        /\ mgrOp'.err = ErrNil)
       => LET rec == Unmarshal(mgrOp'.payload)
          IN /\ \E r \in mgrOp'.data :
                   /\ mgrOp'.data = {r}
                   /\ SameInstance(r, rec)
                   /\ \A k \in DOMAIN ProbeProps :
                         /\ k \in DOMAIN r.Properties
                         /\ r.Properties[k] = ProbeProps[k]
             /\ UNCHANGED <<it, files>>]_vars

\* a GetInfo that succeeded for an instance whose stored record has not been
\* probed: the reply has the hostname, the stored record has none
C19_Witness ==
    /\ mgrOp.op = "Handle" /\ mgrOp.arg = "GetInfo" /\ mgrOp.err = ErrNil
    /\ \E r \in mgrOp.data :
          /\ "hostname" \in DOMAIN r.Properties
          /\ r.UUID \in DOMAIN it
          /\ "hostname" \notin DOMAIN it[r.UUID].Properties

\* C20: Handle of a command other than Add, Remove and GetInfo replies with
\* the UnknownCmdError that carries the name of the command, and changes
\* neither the map, nor the files, nor the subscriptions.
C20_UnknownCommand ==
    [][(/\ mgrOp'.op = "Handle"
        /\ mgrOp'.arg \notin {"Add", "Remove", "GetInfo"})
       => /\ mgrOp'.err = "UnknownCmd"
          /\ mgrOp'.name = mgrOp'.arg
          /\ UNCHANGED StoreAndSubs]_vars

\* C15: when the resync task has dealt with a key D taken off the global
\* feed, it has probed every MySQL instance of the registry whose dsn is D
\* and, the server answering, has sent a PUT to <link>/<UUID> with the
\* refreshed record of each of them.
C15_ResyncRefreshes ==
    [][mgrOp'.op = "Resync"
       => \A U \in DOMAIN it :
             (/\ isMySQLConfig(it[U])
              /\ DsnKey \in DOMAIN it[U].Properties
              /\ DsnOf(it[U]) = mgrOp'.arg)
             => /\ mgrOp'.arg \in mgrOp'.conns
                /\ server[mgrOp'.arg].up
                      => \E p \in mgrOp'.puts :
                            /\ p.uri = <<apiLink, it[U].UUID>>
                            /\ p.body
                                 = Marshal(GetMySQLInfo(it[U], server).rec)
      ]_vars

\* Start has sent the PUT of the instance r
Pushed(op, link, r) == \E p \in op.puts : p.uri = <<link, r.UUID>>

----------------------------------------------------------------------------
(* Further claims about the instance repository *)

\* what Remove(id) leaves when it acts on the file and the entry of id
FileThenEntry(id) ==
    \/ /\ lastOp'.err = "osRemove"
       /\ it' = it
       /\ files' = files
    \/ /\ lastOp'.err = ErrNil
       /\ HasFile(files, id)
       /\ DOMAIN it' = DOMAIN it \ {id}
       /\ DOMAIN files' = DOMAIN files \ {BackingFile(id)}
       /\ \A u \in DOMAIN it' : it'[u] = it[u]
       /\ \A n \in DOMAIN files' : files'[n] = files[n]

C23_Non200IsUnknownInstance ==
    [][(/\ lastOp'.op = "Get"
        /\ valid(lastOp'.id)
        /\ lastOp'.id \notin DOMAIN it
        /\ Len(lastOp'.resps) = 1
        /\ lastOp'.resps[1].kind = "code404")
       => lastOp'.err = "UnknownInstance"]_vars

\* C24: after an Init that returned nil every record of the map is the
\* content of the file named after its UUID, the file Remove(UUID) deletes.
C24_UUIDMatchesFileName ==
    [][(lastOp'.op = "Init" /\ lastOp'.err = ErrNil)
       => \A u \in DOMAIN it' :
             /\ it'[u].UUID = u
             /\ HasFile(files', u)
             /\ WellFormedBody(files'[BackingFile(u)])
             /\ Unmarshal(files'[BackingFile(u)]) = it'[u]]_vars

\* C25: Init, Add, Get, Remove and List exclude one another for their whole
\* duration: while an Init scan is between two files of its list, no call of
\* another caller reads or changes the map; the next step is the scan's own
C25_InitScanExclusive ==
    [][(scan.pc = "loop" /\ 1 < scan.k /\ scan.k <= Len(scan.list))
          => lastOp'.op \in {"Scan", "Init"}]_vars

----------------------------------------------------------------------------
(* Further claims about RestartMonitor *)

\* the polling tasks that run, and those that have returned
Running == {t \in DOMAIN tasks : tasks[t] \in {"first", "loop"}}

Returned == {t \in DOMAIN tasks : tasks[t] = "done"}

\* the first step of a polling task is a check of its own, whatever is
\* buffered in stop; a task that has returned stays so and checks no more
CheckFirstNoneAfter ==
    [][\A t \in DOMAIN tasks :
          /\ (tasks[t] = "first" /\ tasks'[t] # "first")
                => (monOp'.op = "Check" /\ monOp'.c = {t})
          /\ tasks[t] = "done"
                => /\ tasks'[t] = "done"
                   /\ ~(monOp' # monOp /\ monOp'.op = "Check"
                           /\ monOp'.c = {t})]_vars

\* C26 as stated: a polling task checks at once and then tick after tick;
\* after a Stop issued while it runs, that very task eventually returns, and
\* it runs no check after it has taken the stop signal
C26_Original ==
    /\ CheckFirstNoneAfter
    /\ \A t \in 1..MaxTasks :
          (monOp.op = "Stop" /\ t \in Running) ~> (t \in Returned)

\* C26: a polling task checks at once and then tick after tick; after a
\* Stop issued while polling tasks run, one of the running tasks eventually
\* returns (the task itself when it is the only one), and a task runs no
\* check after it has taken the stop signal
C26_PollUntilStopped ==
    /\ CheckFirstNoneAfter
    /\ \A n \in 0..MaxTasks :
          (monOp.op = "Stop" /\ Running # {} /\ Cardinality(Returned) = n)
             ~> (Cardinality(Returned) > n)

\* a polling task has taken the stop signal and returned after a check of
\* its own, and another polling task still runs
C26_Witness ==
    /\ monOp.op = "Exit"
    /\ stop = 0
    /\ monOp.c \subseteq Returned
    /\ Running # {}

\* the channels subscribed to the target d
SubscribedTo(mis, d) ==
    IF d \in DOMAIN mis THEN mis[d].Subscribers ELSE {}

\* C27: Add for a target that is not watched and whose baseline cannot be
\* read returns an error and no channel and leaves the target unwatched;
\* every Add that succeeds returns a channel that no target had subscribed,
\* and the subscriber set of its target grows by exactly that channel
C27_AddSubscribesOne ==
    [][monOp'.op = "Add" =>
         LET d == monOp'.dsn
         IN /\ (d \notin DOMAIN mysqlInstances /\ ~server[d].up)
                 => /\ monOp'.err # ErrNil
                    /\ monOp'.c = {}
                    /\ mysqlInstances' = mysqlInstances
            /\ monOp'.err = ErrNil
                 => /\ Cardinality(monOp'.c) = 1
                    /\ monOp'.c \cap SubscribersOf(mysqlInstances,
                                                   DOMAIN mysqlInstances) = {}
                    /\ SubscribedTo(mysqlInstances', d)
                          = SubscribedTo(mysqlInstances, d) \cup monOp'.c
                    /\ \A e \in Targets \ {d} :
                          SubscribedTo(mysqlInstances', e)
                             = SubscribedTo(mysqlInstances, e)]_vars

\* Add has failed for a target that is not watched, beside a watched target
C27_Witness ==
    /\ monOp.op = "Add"
    /\ monOp.err # ErrNil
    /\ monOp.c = {}
    /\ monOp.dsn \notin DOMAIN mysqlInstances
    /\ DOMAIN mysqlInstances # {}

\* the watched targets whose server is reachable and shows a fingerprint
\* other than the baseline
RestartedNow ==
    {d \in DOMAIN mysqlInstances :
        server[d].up /\ server[d].fp # mysqlInstances[d].baseline}

\* C28: a tick always completes, whatever the subscribers do: a subscriber
\* whose buffer is full loses that one signal, and the tick still delivers
\* to every other subscriber of the restarted targets and still checks every
\* watched target
C28_TickCompletes ==
    /\ [](ENABLED Monitor_Check)
    /\ [][monOp'.op = "Check" =>
            LET subs == SubscribersOf(mysqlInstances, RestartedNow)
            IN /\ monOp'.checked = DOMAIN mysqlInstances
               /\ monOp'.restarted = RestartedNow
               /\ DOMAIN chans' = DOMAIN chans
               /\ \A c \in DOMAIN chans :
                     chans'[c] = IF c \in subs /\ chans[c] < ChanCap
                                 THEN chans[c] + 1
                                 ELSE chans[c]
               /\ \A d \in RestartedNow :
                     mysqlInstances'[d].baseline = server[d].fp]_vars

\* a tick has passed over a subscriber whose buffer was full and has
\* delivered the signal to another subscriber of the same target
C28_Witness ==
    /\ monOp.op = "Check"
    /\ monOp.c # {}
    /\ \E d \in monOp.restarted :
          /\ monOp.c \subseteq mysqlInstances[d].Subscribers
          /\ \E c \in mysqlInstances[d].Subscribers \ monOp.c :
                chans[c] > 0

\* the watched targets whose server cannot be reached
Unreachable == {d \in DOMAIN mysqlInstances : ~server[d].up}

\* C29: when the liveness check of a target fails during a tick, the target
\* counts as not restarted (its subscribers get no signal, its baseline
\* stays), the other targets are still checked and those that restarted are
\* still signalled, and the next tick can run
C29_FailedCheckIsNoRestart ==
    /\ [](Unreachable # {} => ENABLED Monitor_Check)
    /\ [][(monOp'.op = "Check" /\ Unreachable # {}) =>
            /\ monOp'.checked = DOMAIN mysqlInstances
            /\ monOp'.restarted = RestartedNow
            /\ \A d \in Unreachable :
                  /\ d \notin monOp'.restarted
                  /\ mysqlInstances'[d] = mysqlInstances[d]
                  /\ \A c \in mysqlInstances[d].Subscribers :
                        chans'[c] = chans[c]
            /\ \A d \in RestartedNow :
                  /\ mysqlInstances'[d].baseline = server[d].fp
                  /\ \A c \in mysqlInstances[d].Subscribers :
                        chans[c] < ChanCap => chans'[c] = chans[c] + 1]_vars

\* a tick has found one watched target unreachable and another restarted,
\* and has signalled the subscriber of the latter
C29_Witness ==
    /\ monOp.op = "Check"
    /\ \E d \in monOp.checked \ monOp.restarted : ~server[d].up
    /\ \E e \in monOp.restarted :
          \E c \in mysqlInstances[e].Subscribers : chans[c] > 0

\* C38: at most one stop signal is pending, and a signal ends one polling
\* task and no more: only a task that returns takes a signal off, it takes
\* one and it alone returns, so of k tasks a single Stop leaves k-1 running;
\* a signal posted while no task runs stays pending, the task launched next
\* runs its first check before anything else, finds the signal ready at its
\* first select, and a running task eventually takes it
C38_OneSignalOneTask ==
    /\ [](stop <= StopCap)
    /\ [](\A t \in Running : (tasks[t] = "loop" /\ stop > 0)
                                 => ENABLED Poll_Exit)
    /\ [][/\ (stop' < stop \/ Returned' # Returned)
               => /\ monOp'.op = "Exit"
                  /\ stop' = stop - 1
                  /\ Returned' = Returned \cup monOp'.c
                  /\ Cardinality(monOp'.c) = 1
                  /\ Cardinality(Running') = Cardinality(Running) - 1
          /\ (Running = {} /\ stop > 0) => stop' = stop
          /\ \A t \in DOMAIN tasks :
                (tasks[t] = "first" /\ tasks'[t] # "first")
                   => (monOp'.op = "Check" /\ tasks'[t] = "loop")]_vars
    /\ \A n \in 0..MaxTasks :
          (stop > 0 /\ Running # {} /\ Cardinality(Returned) = n)
             ~> (Cardinality(Returned) > n)

\* of the polling tasks Start has launched, two or more, one has taken the
\* only signal and returned; every other one is still running
C38_Witness ==
    /\ monOp.op = "Exit"
    /\ stop = 0
    /\ Len(tasks) >= 2
    /\ Cardinality(Returned) = 1
    /\ Cardinality(Running) = Len(tasks) - 1

----------------------------------------------------------------------------
(* Further claims about the Manager *)

\* the ids of the MySQL instances of the registry whose dsn is the key D
Matching(D) ==
    {U \in DOMAIN it : /\ isMySQLConfig(it[U])
                       /\ DsnKey \in DOMAIN it[U].Properties
                       /\ DsnOf(it[U]) = D}

\* C30: for one restart event with the key D the resync task probes and
\* pushes every instance whose dsn is D, all of them when several share D:
\* the server answering, the instances refreshed are exactly the matching
\* ones and one PUT is sent for each
C30_ResyncEveryMatch ==
    [][(mgrOp'.op = "Resync" /\ server[mgrOp'.arg].up) =>
          /\ {r.UUID : r \in mgrOp'.data} = Matching(mgrOp'.arg)
          /\ {p.uri : p \in mgrOp'.puts}
                = {<<apiLink, U>> : U \in Matching(mgrOp'.arg)}]_vars

\* C31: when the resync task panics it leaves the status Crashed and
\* returns; from then on the status stays Crashed, no key is taken off the
\* global feed any more, and no call of the Manager launches the task again
C31_CrashedIsTerminal ==
    [][/\ (mgrOp'.op = "Resync" /\ mgrOp'.err = "panic")
            => resync' = "Crashed"
       /\ resync = "Crashed"
            => /\ resync' = "Crashed"
               /\ feed \subseteq feed'
               /\ mgrOp'.op # "Resync"]_vars

\* the task has crashed, a later restart event waits on the feed and the
\* caller has gone on calling Handle
C31_Witness ==
    /\ resync = "Crashed"
    /\ feed # {}
    /\ mgrOp.op = "Handle"
    /\ ~crashed

\* C33: Handle(GetInfo) with a MySQL record that has no dsn property
\* replies with an error and has attempted no connection and no probe
C33_GetInfoNoDsn ==
    [][(/\ HandleOf("GetInfo")
        /\ isMySQLConfig(Unmarshal(mgrOp'.payload))
        /\ DsnKey \notin DOMAIN Unmarshal(mgrOp'.payload).Properties)
       => /\ mgrOp'.err # ErrNil
          /\ mgrOp'.conns = {}]_vars

\* C34: what Get and List return are copies: whatever Handle, Start and the
\* resync task do with them, the metadata probe included, a record of the
\* map stays as it was stored, equal to the content of its backing file
C34_ReturnedCopyIsPrivate ==
    \A U \in DOMAIN it :
       (HasFile(files, U) /\ WellFormedBody(files[BackingFile(U)]))
          => it[U] = Unmarshal(files[BackingFile(U)])

\* C35: every channel mrm.Add has returned to the Manager, in Start or in
\* Handle(Add), is in mrmChans for as long as it is subscribed: no channel
\* is subscribed in the monitor that mrmChans does not give back for its dsn
C35_EveryChannelRecorded ==
    \A d \in DOMAIN mysqlInstances :
       \A c \in mysqlInstances[d].Subscribers :
          d \in DOMAIN mrmChans /\ mrmChans[d] = c

\* C36: a Get that returns an error leaves the map and the backing files as
\* they were, also when the remote API answered 200 with the record of
\* another id, and it has made a bounded number of remote requests
C36_FailedGetChangesNothing ==
    [][(lastOp'.op = "Get" /\ lastOp'.err # ErrNil)
          => /\ it' = it
             /\ files' = files
             /\ lastOp'.net <= NumIds]_vars

\* C37: an Init that returns an error leaves no record in the map, and an
\* Init that follows a successful Init over the same well-formed directory
\* succeeds and leaves the map as it was
C37_InitAllOrNothing ==
    [][lastOp'.op = "Init"
         => /\ lastOp'.err \notin {ErrNil, "panic"} => DOMAIN it' = {}
            /\ (lastOp.op = "Init" /\ lastOp.err = ErrNil
                  /\ WellFormedDir(files))
                 => (lastOp'.err = ErrNil /\ it' = it)]_vars

----------------------------------------------------------------------------
(* Claims about the two locks *)

\* the context a holds a lock and waits for the lock the context b holds
WaitsFor(a, b) ==
    /\ HeldBy(stacks, a) # {}
    /\ \E g \in NextCall(stacks, a) : Takes(g) \in HeldBy(stacks, b)

\* C32: no context ever holds the lock of the registry and the lock of the
\* monitor's subscriber table together, none asks for a lock while it holds
\* one, and so no two contexts wait for each other's lock
C32_LocksNeverNested ==
    /\ \A c \in Contexts : Cardinality(HeldBy(stacks, c)) <= 1
    /\ \A c \in Contexts :
          HeldBy(stacks, c) # {}
             => \A g \in NextCall(stacks, c) : Takes(g) = "none"
    /\ \A a, b \in Contexts : ~(WaitsFor(a, b) /\ WaitsFor(b, a))

\* the caller is in Monitor.Add under the monitor's lock while the resync
\* task is in Repo.List under the registry's lock
C32_Witness ==
    /\ HeldBy(stacks, "caller") = {"mon"}
    /\ HeldBy(stacks, "resync") = {"repo"}
    /\ stacks["caller"][1].f = "Handle(Add)"

\* the context c is in GetMySQLInfo for a record it got from Repo.Get or
\* Repo.List: the probe assigns into the Properties the stored record shares
ProbesStored(c) ==
    /\ stacks[c] # <<>>
    /\ stacks[c][Len(stacks[c])].f = "GetMySQLInfo"
    /\ stacks[c][1].f \in {"Manager.Start", "Handle(Add)",
                            "Manager.monitorInstancesRestart"}

\* C39: the Properties of a stored record are read and written only under
\* the lock of the registry: a context that probes a record of the registry
\* holds that lock, and the resync task and the caller are never both in
\* such a probe
C39_PropertiesUnderLock ==
    /\ \A c \in Contexts : ProbesStored(c) => "repo" \in HeldBy(stacks, c)
    /\ \A a, b \in Contexts : (ProbesStored(a) /\ ProbesStored(b)) => a = b

====
